---- MODULE Spec2Model ----
(***************************************************************************)
(* A model of ARCfs (gitlab_arc_fs): the lazy tree cache of arc_fs.py, the *)
(* LFS upload transaction of lfs_file.py / ARCfs.upload, the bounded       *)
(* metadata batch of gitlab_filestream.py, and the threads that call the   *)
(* file system concurrently.                                               *)
(*                                                                         *)
(* Conventions.  A Python str holding a path is a sequence of tokens, each *)
(* token being the separator "/" or one path segment ("." included).  A    *)
(* pathlib.Path is the sequence of its parts.  Python's None is the string *)
(* "None"; an optional integer is <<>> (None) or <<n>>.  SHA-256 is taken  *)
(* to be collision free: a digest is identified with the byte sequence     *)
(* that was fed to the hash object.                                        *)
(***************************************************************************)
EXTENDS Integers, Sequences, FiniteSets, TLC

VARIABLES
    \* ---- ARCfs caches (arc_fs.py, ARCfs.__init__) ----
    repo_trees_dict,        \* repo id -> (Path -> [is_dir, name])
    accesed_repositories,   \* set of repo ids
    info_dict,              \* Path -> Info
    opReqs,                 \* remote requests issued by the call that returned
    ret,                    \* outcome of the call that returned, Idle between calls
    calls,                  \* calls made in this session
    \* ---- one upload transaction (lfs_file.py, ARCfs.upload) ----
    tx,                     \* the file object and the state of the transaction
    txlog,                  \* the requests the remote server received, in order
    \* ---- one metadata batch (ARCfs._retrieve_metadata) ----
    batch,                  \* the batch: its step and the semaphore it created
    tasks,                  \* the state of each _get_gitlab_metadata task
    \* ---- threads calling one ARCfs object ----
    thr,                    \* each thread: its call and where it stands in it
    lock                    \* ARCfs._lock: the thread that holds it, 0 when free

None == "None"

\* ------------------------------------------------------------------------
\* Strings and pathlib
\* ------------------------------------------------------------------------

SEP == "/"

RECURSIVE lstrip(_)
lstrip(s) == IF s # <<>> /\ Head(s) = SEP THEN lstrip(Tail(s)) ELSE s

RECURSIVE rstrip(_)
rstrip(s) ==
    IF s # <<>> /\ s[Len(s)] = SEP THEN rstrip(SubSeq(s, 1, Len(s) - 1)) ELSE s

\* str.strip("/")
strip(s) == rstrip(lstrip(s))

\* The segments of a str between separators, empty ones and "." dropped
\* (pathlib drops both when it parses).
RECURSIVE Segments(_)
Segments(s) ==
    IF s = <<>> THEN <<>>
    ELSE IF Head(s) \in {SEP, "."} THEN Segments(Tail(s))
    ELSE <<Head(s)>> \o Segments(Tail(s))

\* pathlib.Path(s).parts: the anchor "/" first when s is absolute.
Path(s) ==
    IF s # <<>> /\ Head(s) = SEP THEN <<SEP>> \o Segments(s) ELSE Segments(s)

RECURSIVE Join(_)
Join(parts) ==
    IF parts = <<>> THEN <<>>
    ELSE IF Len(parts) = 1 THEN parts
    ELSE <<Head(parts), SEP>> \o Join(Tail(parts))

\* str(Path)
str(p) ==
    IF p = <<>> THEN <<".">>
    ELSE IF Head(p) = SEP THEN <<SEP>> \o Join(Tail(p))
    ELSE Join(p)

\* Path.parent
parent(p) ==
    IF p = <<>> \/ p = <<SEP>> THEN p ELSE SubSeq(p, 1, Len(p) - 1)

\* Path.name
name(p) == IF p = <<>> \/ p = <<SEP>> THEN "" ELSE p[Len(p)]

\* Path.parts[-1] of a Path that has parts
last_part(p) == p[Len(p)]

\* `path in [".", "./", ""]`
IsRootAlias(s) == s \in {<<".">>, <<".", SEP>>, <<>>}

\* The normalisation that opens getinfo, isdir, isrepository, upload, makedir.
Normalise(s) ==
    LET Strip(a) == IF a # <<SEP>> THEN strip(a) ELSE a
    IN  Strip(IF IsRootAlias(s) THEN <<SEP>> ELSE s)

\* ------------------------------------------------------------------------
\* The remote server: catalog and repository trees
\* ------------------------------------------------------------------------

\* The projects the token can see, as ARCfs.__init__ fetched them.
RemoteProjects ==
    << [id |-> "1", path_formated |-> <<"A">>, path_with_namespace |-> "ns/a"],
       [id |-> "2", path_formated |-> <<"B">>, path_with_namespace |-> "ns/b"] >>

\* The paginated recursive tree listing of each project.
RemoteTree(id) ==
    IF id = "1" THEN
       << << [path |-> <<"d">>, type |-> "tree", name |-> "d"] >>,
          << [path |-> <<"d", "e">>, type |-> "blob", name |-> "e"],
             [path |-> <<"d", "f">>, type |-> "blob", name |-> "f"] >>,
          << [path |-> <<"g">>, type |-> "blob", name |-> "g"] >> >>
    ELSE IF id = "2" THEN
       << << [path |-> <<"h">>, type |-> "blob", name |-> "h"] >> >>
    ELSE << >>

RepoIds == {RemoteProjects[i].id : i \in DOMAIN RemoteProjects}

\* self.repos_dictionary: key Path -> record; the synthetic root has no id.
repos_dictionary ==
    [p \in {RemoteProjects[i].path_formated : i \in DOMAIN RemoteProjects}
           \cup {<<SEP>>} |->
        IF p = <<SEP>> THEN [id |-> None, is_repository |-> FALSE,
                             path_with_namespace |-> None]
        ELSE LET i == CHOOSE j \in DOMAIN RemoteProjects :
                          RemoteProjects[j].path_formated = p
             IN  [id |-> RemoteProjects[i].id, is_repository |-> TRUE,
                  path_with_namespace |-> RemoteProjects[i].path_with_namespace]]

\* The display path of the repository with the given id.
repos_root(id) ==
    (CHOOSE p \in DOMAIN repos_dictionary : repos_dictionary[p].id = id)[1]

\* The lookup keyed by the last part of the path instead of the first.
get_repo_id_path_last(s) ==
    LET Lookup(p) ==
          IF p = <<>> THEN [exc |-> "IndexError", id |-> None, root |-> None]
          ELSE IF <<p[Len(p)]>> \in DOMAIN repos_dictionary
               THEN [exc |-> None, id |-> repos_dictionary[<<p[Len(p)]>>].id,
                     root |-> p[Len(p)]]
               ELSE [exc |-> None, id |-> None, root |-> None]
        Strip(a) == IF a # <<SEP>> THEN strip(a) ELSE a
    IN  Lookup(Path(Strip(IF s \in {<<".">>, <<".", SEP>>} THEN <<SEP>>
                          ELSE s)))

\* ARCfs._get_repo_id_path: (id, root_path), or the IndexError of parts[0]
\* on a path without parts.
get_repo_id_path(s) ==
    LET Lookup(p) ==
          IF p = <<>> THEN [exc |-> "IndexError", id |-> None, root |-> None]
          ELSE IF <<p[1]>> \in DOMAIN repos_dictionary
               THEN [exc |-> None, id |-> repos_dictionary[<<p[1]>>].id,
                     root |-> p[1]]
               ELSE [exc |-> None, id |-> None, root |-> None]
        Strip(a) == IF a # <<SEP>> THEN strip(a) ELSE a
    IN  Lookup(Path(Strip(IF s \in {<<".">>, <<".", SEP>>} THEN <<SEP>>
                          ELSE s)))

\* The test answering True for every path.
isrepository_always(s) ==
    LET First(b, p) ==
          IF p = <<>> THEN [exc |-> "IndexError", val |-> FALSE]
          ELSE [exc |-> None, val |-> TRUE]
        Of(b) == First(b, Path(b))
    IN  Of(Normalise(s))

\* ARCfs.isrepository: True exactly when the normalised str is its own first
\* part; the IndexError of parts[0] when it has no part.
isrepository(s) ==
    LET First(b, p) ==
          IF p = <<>> THEN [exc |-> "IndexError", val |-> FALSE]
          ELSE [exc |-> None, val |-> (<<p[1]>> = b)]
        Of(b) == First(b, Path(b))
    IN  Of(Normalise(s))

\* ------------------------------------------------------------------------
\* ARCfs._construct_tree_dict
\* ------------------------------------------------------------------------

\* How one HTTP request can end: a success status, a non-success status
\* (requests.HTTPError from raise_for_status), requests.exceptions.Timeout,
\* or another requests.exceptions.RequestException.
Outcomes == {"ok", "http_error", "timeout", "request_error"}

MaxPages == 3

\* The outcomes of the page requests of one listing, in request order.
PageOutcomes == [1..MaxPages -> Outcomes]

\* The outcomes that differ in a request the listing of `id` comes to issue:
\* "ok" stands at the places after its last request.
PageOutcomesOf(id) ==
    LET n == IF id \in RepoIds THEN Len(RemoteTree(id)) ELSE 1
    IN  {o \in PageOutcomes :
           \A k \in 1..MaxPages :
              (k > n \/ \E j \in 1..(k - 1) : o[j] \notin {"ok", "timeout"}
                     \/ (k > 1 /\ o[1] # "ok"))
              => o[k] = "ok"}

RECURSIVE ConcatPages(_, _)
ConcatPages(pages, idxs) ==
    IF idxs = <<>> THEN <<>>
    ELSE pages[Head(idxs)] \o ConcatPages(pages, Tail(idxs))

\* The loop over the following pages (for i in range(num_pages-1)).  r is the
\* page held by the response variable, got the pages extended into the tree so
\* far, k the number of the next request.  A Timeout is printed and swallowed:
\* r keeps the previous response, whose page is extended again.
RECURSIVE FollowPages(_, _, _, _, _)
FollowPages(left, r, got, k, outs) ==
    IF left = 0 THEN [exc |-> None, got |-> got, nreq |-> k - 1]
    ELSE IF outs[k] = "ok"
         THEN FollowPages(left - 1, r + 1, Append(got, r + 1), k + 1, outs)
    ELSE IF outs[k] = "timeout"
         THEN FollowPages(left - 1, r, Append(got, r), k + 1, outs)
    ELSE [exc |-> "SystemExit", got |-> got, nreq |-> k]

\* The page fetches of _construct_tree_dict: the exception raised (None when
\* none), the pages extended into `tree` in order, the requests issued.
FetchTree(id, outs) ==
    LET pages == RemoteTree(id)
    IN  \* the server knows no project under an id of no catalog record
        IF outs[1] = "http_error" \/ (outs[1] = "ok" /\ id \notin RepoIds)
             THEN [exc |-> "HTTPError", got |-> <<>>, nreq |-> 1]
        ELSE IF outs[1] = "timeout"
             \* r was never bound: r.headers raises
             THEN [exc |-> "UnboundLocalError", got |-> <<>>, nreq |-> 1]
        ELSE IF outs[1] = "request_error"
             THEN [exc |-> "SystemExit", got |-> <<>>, nreq |-> 1]
        ELSE FollowPages(Len(pages) - 1, 1, <<1>>, 2, outs)

\* directory_dict: every element of the fetched list under the repository's
\* display path, and the repository root itself.
DirectoryDict(id, repo_path, got) ==
    LET tree == ConcatPages(RemoteTree(id), got)
        keys == {<<repo_path>> \o tree[i].path : i \in DOMAIN tree}
    IN  [p \in keys \cup {<<repo_path>>} |->
           IF p = <<repo_path>> THEN [is_dir |-> TRUE, name |-> repo_path]
           ELSE LET i == CHOOSE j \in DOMAIN tree :
                           /\ <<repo_path>> \o tree[j].path = p
                           /\ \A l \in DOMAIN tree :
                                <<repo_path>> \o tree[l].path = p => l <= j
                IN  [is_dir |-> (tree[i].type = "tree"),
                     name |-> tree[i].name]]

\* The caches after _construct_tree_dict(repo_id, repo_path) with the given
\* request outcomes: both updated at its last two lines, or neither.
construct_tree_dict(trees, acc, id, repo_path, outs) ==
    LET Commit(f) ==
          IF f.exc # None
          THEN [exc |-> f.exc, trees |-> trees, acc |-> acc, nreq |-> f.nreq]
          ELSE [exc |-> None,
                trees |-> [k \in DOMAIN trees \cup {id} |->
                             IF k = id THEN DirectoryDict(id, repo_path, f.got)
                             ELSE trees[k]],
                acc |-> acc \cup {id},
                nreq |-> f.nreq]
    IN  Commit(FetchTree(id, outs))

\* ------------------------------------------------------------------------
\* The outcome of a call: the exception raised (None when none), the value
\* returned, the caches it leaves and the remote requests it issued.
\* ------------------------------------------------------------------------

Res(exc, val, trees, acc, info, reqs) ==
    [exc |-> exc, val |-> val, trees |-> trees, acc |-> acc, info |-> info,
     reqs |-> reqs]

Req(kind, id, page, path) ==
    [kind |-> kind, id |-> id, page |-> page, path |-> path]

TreeReqs(id, n) == [k \in 1..n |-> Req("tree", id, k, <<>>)]

\* What the remote server does to the requests of one call: the outcome of
\* each page request of a tree listing, of each metadata probe, and of the
\* branch listing.  `loop` tells whether an event loop is running in the
\* context the call is made from.
OkPages == [k \in 1..MaxPages |-> "ok"]
OkEnv ==
    [pages |-> OkPages, probe |-> <<>>, branch |-> "ok", stream |-> "ok",
     batch |-> "upload_te", put |-> "ok", commit |-> "ok", gaget |-> "ok",
     loop |-> FALSE]

\* The lazy build without its membership test: the listing is fetched anew.
EnsureTree_refetch(trees, acc, info, id, root, env) ==
    LET Built(c) == Res(c.exc, None, c.trees, c.acc, info, TreeReqs(id, c.nreq))
    IN  Built(construct_tree_dict(trees, acc, id, root, env.pages))

\* `if id not in self.repo_trees_dict: self._construct_tree_dict(id, root)`
EnsureTree(trees, acc, info, id, root, env) ==
    LET Built(c) == Res(c.exc, None, c.trees, c.acc, info, TreeReqs(id, c.nreq))
    IN  IF id \in DOMAIN trees THEN Res(None, None, trees, acc, info, <<>>)
        ELSE Built(construct_tree_dict(trees, acc, id, root, env.pages))

\* ARCfs.isdir
isdir(trees, acc, info, s, env) ==
    LET Look(p, g, b) ==
          IF b.exc # None THEN b
          ELSE [b EXCEPT !.val =
                   /\ p \in DOMAIN b.trees[g.id]
                   /\ b.trees[g.id][p].is_dir]
        InRepo(p, g) ==
          IF g.exc # None THEN Res(g.exc, None, trees, acc, info, <<>>)
          ELSE IF g.id = None THEN Res(None, FALSE, trees, acc, info, <<>>)
          ELSE Look(p, g, EnsureTree(trees, acc, info, g.id, g.root, env))
        At(p) ==
          IF p \in DOMAIN repos_dictionary
          THEN Res(None, TRUE, trees, acc, info, <<>>)
          ELSE InRepo(p, get_repo_id_path(str(p)))
    IN  At(Path(Normalise(s)))

\* The membership test made with the Path of the argument.
check_ressource_found(trees, acc, info, s, env) ==
    LET Look(g, b) ==
          IF b.exc # None THEN b
          ELSE IF g.id \notin DOMAIN b.trees
               THEN [b EXCEPT !.exc = "TypeError"]
          ELSE [b EXCEPT !.val = Path(s) \in DOMAIN b.trees[g.id]]
        InRepo(g) ==
          IF g.exc # None THEN Res(g.exc, None, trees, acc, info, <<>>)
          ELSE Look(g, EnsureTree(trees, acc, info, g.id, g.root, env))
    IN  InRepo(get_repo_id_path(s))

\* ARCfs._check_ressource.  The argument is a str and the keys of the tree are
\* Path objects, which never compare equal to a str: the membership test is
\* False for every path.  With no tree for the id (id None) `in` raises.
check_ressource(trees, acc, info, s, env) ==
    LET Look(g, b) ==
          IF b.exc # None THEN b
          ELSE IF g.id \notin DOMAIN b.trees
               THEN [b EXCEPT !.exc = "TypeError"]
          ELSE [b EXCEPT !.val = FALSE]
        InRepo(g) ==
          IF g.exc # None THEN Res(g.exc, None, trees, acc, info, <<>>)
          ELSE Look(g, EnsureTree(trees, acc, info, g.id, g.root, env))
    IN  InRepo(get_repo_id_path(s))

\* dict.update({k: v})
Upd(f, k, v) == [x \in DOMAIN f \cup {k} |-> IF x = k THEN v ELSE f[x]]

DirInfo_as_file(nm) ==
    [name |-> nm, is_dir |-> FALSE, size |-> <<>>, type |-> 1]
DirInfo(nm) == [name |-> nm, is_dir |-> TRUE, size |-> <<>>, type |-> 1]
FileInfo(nm, sz) == [name |-> nm, is_dir |-> FALSE, size |-> <<sz>>, type |-> 2]

\* The size the server reports for the file at an in-repository path.
RemoteSize(id, path) ==
    IF path = <<"d", "e">> THEN 20
    ELSE IF path = <<"d", "f">> THEN 10
    ELSE IF path = <<"g">> THEN 5
    ELSE 7

\* The keys of a repository's tree in the order a dict iterates them: the
\* order of the listing (entries added by makedir are directories).
RECURSIVE SeqFilter(_, _)
SeqFilter(q, S) ==
    IF q = <<>> THEN <<>>
    ELSE IF Head(q) \in S THEN <<Head(q)>> \o SeqFilter(Tail(q), S)
    ELSE SeqFilter(Tail(q), S)

ListingOrder(id, root) ==
    LET all == ConcatPages(RemoteTree(id),
                           [k \in 1..Len(RemoteTree(id)) |-> k])
    IN  [i \in DOMAIN all |-> <<root>> \o all[i].path]

\* ARCfs._gather_file_paths for a path inside a repository whose tree is built:
\* [path] for a file, else the files whose parent is the path.
gather_file_paths(trees, s) ==
    LET Files(p, g, tree) ==
          IF ~(p \in DOMAIN repos_dictionary
               \/ (p \in DOMAIN tree /\ tree[p].is_dir))
          THEN <<p>>
          ELSE SeqFilter(ListingOrder(g.id, g.root),
                         {k \in DOMAIN tree :
                            parent(k) = p /\ ~tree[k].is_dir})
        In(p, g) == Files(p, g, trees[g.id])
        At(p) == In(p, get_repo_id_path(str(p)))
    IN  At(Path(strip(s)))

ProbeOutcomes == {"ok", "notfound", "error"}

ProbeOf(env, p) == IF p \in DOMAIN env.probe THEN env.probe[p] ELSE "ok"

\* The batch gathering the exceptions of its probes instead of raising the
\* first: a probe that raised maps its path to None.
retrieve_metadata_partial(trees, s, env) ==
    LET Batch(g, paths, n) ==
          LET breqs == [i \in 1..n |-> Req("branches", g.id, 1, <<>>)]
              preqs == [i \in 1..n |-> Req("probe", g.id, 1, paths[i])]
          IN  IF n > 0 /\ env.branch # "ok"
                   THEN [exc |-> "SystemExit", val |-> <<>>, paths |-> paths,
                         reqs |-> <<Req("branches", g.id, 1, <<>>)>>]
              ELSE [exc |-> None,
                    val |-> [i \in 1..n |->
                               IF ProbeOf(env, paths[i]) # "ok" THEN <<>>
                               ELSE <<[name |-> name(paths[i]),
                                       size |-> RemoteSize(g.id,
                                                           Tail(paths[i]))]>>],
                    paths |-> paths,
                    reqs |-> breqs \o preqs]
        Of(g, paths) == Batch(g, paths, Len(paths))
    IN  Of(get_repo_id_path(strip(s)), gather_file_paths(trees, s))

\* ARCfs._retrieve_metadata, the batch taken as one step: the default branch is
\* resolved for the URL of every path (FileStreamHandler.construct_url), then
\* every path is probed.  A 404 maps the path to None; a probe that raises
\* makes the batch raise.
retrieve_metadata(trees, s, env) ==
    LET Batch(g, paths, n) ==
          LET breqs == [i \in 1..n |-> Req("branches", g.id, 1, <<>>)]
              preqs == [i \in 1..n |-> Req("probe", g.id, 1, paths[i])]
          IN  IF n > 0 /\ env.branch # "ok"
                   THEN [exc |-> "SystemExit", val |-> <<>>, paths |-> paths,
                         reqs |-> <<Req("branches", g.id, 1, <<>>)>>]
              ELSE IF \E i \in 1..n : ProbeOf(env, paths[i]) = "error"
                   THEN [exc |-> "ClientError", val |-> <<>>, paths |-> paths,
                         reqs |-> breqs \o preqs]
              ELSE [exc |-> None,
                    val |-> [i \in 1..n |->
                               IF ProbeOf(env, paths[i]) = "notfound" THEN <<>>
                               ELSE <<[name |-> name(paths[i]),
                                       size |-> RemoteSize(g.id,
                                                           Tail(paths[i]))]>>],
                    paths |-> paths,
                    reqs |-> breqs \o preqs]
        Of(g, paths) == Batch(g, paths, Len(paths))
    IN  Of(get_repo_id_path(strip(s)), gather_file_paths(trees, s))

\* The loop of _build_directory_info over the batch result: a descriptor per
\* path, in order; subscripting the None of a 404 raises TypeError and leaves
\* the descriptors stored before it.
RECURSIVE AddFileInfos(_, _, _, _)
AddFileInfos(info, paths, vals, i) ==
    IF i > Len(paths) THEN [exc |-> None, info |-> info]
    ELSE IF vals[i] = <<>> THEN [exc |-> "TypeError", info |-> info]
    ELSE AddFileInfos(Upd(info, paths[i],
                          FileInfo(vals[i][1].name, vals[i][1].size)),
                      paths, vals, i + 1)

\* The directory descriptors _build_directory_info stores: the path itself and
\* the directories directly under it.
AddDirInfos(info, tree, s) ==
    LET ks == {k \in DOMAIN tree :
                 /\ str(parent(k)) = s \/ str(k) = s
                 /\ k \in DOMAIN repos_dictionary \/ tree[k].is_dir}
    IN  [x \in DOMAIN info \cup ks |->
           IF x \in ks THEN DirInfo(tree[x].name) ELSE info[x]]

\* ARCfs.run_async on the outcome m of the coroutine.  Without a running loop
\* asyncio.run returns what the coroutine returns and raises what it raises.
\* With a running loop the coroutine runs in a RunThread: an exception ends
\* the thread, join returns, and thread.result is the None of __init__.
run_async(loop, m) ==
    IF loop /\ m.exc # None
    THEN [m EXCEPT !.exc = None] @@ [none |-> TRUE]
    ELSE m @@ [none |-> FALSE]

\* ARCfs._build_directory_info
build_directory_info(trees, acc, info, s, env) ==
    LET Store(b, info1, reqs, m) ==
          LET Stored(a) ==
                Res(a.exc, None, b.trees, b.acc, a.info, reqs \o m.reqs)
          IN  IF m.exc # None
              THEN Res(m.exc, None, b.trees, b.acc, info1, reqs \o m.reqs)
              ELSE IF m.none
              \* raw_info_dict.items() on None
              THEN Res("AttributeError", None, b.trees, b.acc, info1,
                       reqs \o m.reqs)
              ELSE Stored(AddFileInfos(info1, m.paths, m.val, 1))
        Fill(d, g, b) ==
          IF b.exc # None THEN [b EXCEPT !.reqs = d.reqs \o b.reqs]
          ELSE Store(b, AddDirInfos(info, b.trees[g.id], s),
                     d.reqs \o b.reqs,
                     run_async(env.loop, retrieve_metadata(b.trees, s, env)))
        Dir(d, g) ==
          Fill(d, g, EnsureTree(d.trees, d.acc, info, g.id, g.root, env))
        NoDir(d, c) ==
          IF c.exc # None THEN [c EXCEPT !.reqs = d.reqs \o c.reqs]
          ELSE IF ~c.val
               THEN [c EXCEPT !.reqs = d.reqs \o c.reqs,
                              !.exc = "ResourceNotFound"]
          ELSE [c EXCEPT !.reqs = d.reqs \o c.reqs,
                         !.exc = "DirectoryExpected"]
        Checked(d) ==
          IF d.exc # None THEN d
          ELSE IF ~d.val
               THEN NoDir(d, check_ressource(d.trees, d.acc, info, s, env))
          ELSE Dir(d, get_repo_id_path(s))
    IN  Checked(isdir(trees, acc, info, s, env))

\* ARCfs.getinfo
getinfo(trees, acc, info, s0, env) ==
    LET Answer(p, r) ==
          IF r.exc # None THEN r
          ELSE IF p \in DOMAIN r.info THEN [r EXCEPT !.val = r.info[p]]
          ELSE [r EXCEPT !.exc = "ResourceNotFound"]
        File(creqs, d, b) == [b EXCEPT !.reqs = creqs \o d.reqs \o b.reqs]
        Kind(p, g, creqs, d) ==
          IF d.exc # None THEN [d EXCEPT !.reqs = creqs \o d.reqs]
          ELSE IF d.val
               THEN Answer(p, Res(None, None, d.trees, d.acc,
                                  Upd(info, p, DirInfo(d.trees[g.id][p].name)),
                                  creqs \o d.reqs))
          ELSE Answer(p, File(creqs, d,
                              build_directory_info(d.trees, d.acc, info,
                                                   str(parent(p)), env)))
        Built(p, g, c, creqs) ==
          IF c.exc = "HTTPError"
               THEN Res("ResourceNotFound", None, trees, acc, info, creqs)
          ELSE IF c.exc # None THEN Res(c.exc, None, trees, acc, info, creqs)
          ELSE IF p \in DOMAIN info
               THEN Res(None, info[p], c.trees, c.acc, info, creqs)
          ELSE Kind(p, g, creqs, isdir(c.trees, c.acc, info, str(p), env))
        Tree(p, g, c) == Built(p, g, c, TreeReqs(g.id, c.nreq))
        Norm(s, rp, p, g) ==
          IF rp.exc # None THEN Res(rp.exc, None, trees, acc, info, <<>>)
          ELSE IF rp.val THEN
               IF p \in DOMAIN info
               THEN Res(None, info[p], trees, acc, info, <<>>)
               ELSE Res("ResourceNotFound", None, trees, acc, info, <<>>)
          \* `if id not in self.accesed_repositories`
          ELSE IF g.id \in acc
               THEN Tree(p, g, [exc |-> None, trees |-> trees, acc |-> acc,
                                nreq |-> 0])
          ELSE Tree(p, g, construct_tree_dict(trees, acc, g.id, g.root,
                                              env.pages))
        Of(s) == Norm(s, isrepository(s), Path(s), get_repo_id_path(s))
    IN  Of(Normalise(s0))

\* self.repo_list: the records of the catalog, and the record of the root
\* that _get_accessable_repositories appends, which has no id.
repo_list ==
    [i \in 1..(Len(RemoteProjects) + 1) |->
        IF i <= Len(RemoteProjects)
        THEN [id |-> RemoteProjects[i].id,
              path_formated |-> RemoteProjects[i].path_formated]
        ELSE [id |-> None, path_formated |-> <<SEP>>]]

\* The listing of the top level with every record of repo_list in it.
listdir_root_unfiltered ==
    {str(repo_list[i].path_formated) : i \in DOMAIN repo_list}

\* The listing of the top level:
\*   [str(repo.get("path_formated")) for repo in self.repo_list
\*    if repo.get("id") is not None]
listdir_root ==
    {str(repo_list[i].path_formated) :
       i \in {j \in DOMAIN repo_list : repo_list[j].id # None}}

\* ARCfs.listdir; the list returned is given as the set of its names.
listdir(trees, acc, info, s0, env) ==
    LET Names(rp, g, p, b, d) ==
          IF b.exc # None THEN b
          ELSE IF p \notin DOMAIN b.trees[g.id] /\ ~rp.val
               THEN [b EXCEPT !.exc = "ResourceNotFound"]
          ELSE IF ~rp.val /\ ~d.val
               THEN [b EXCEPT !.exc = "DirectoryExpected"]
          ELSE [b EXCEPT !.val = {name(k) : k \in
                    {x \in DOMAIN b.trees[g.id] : parent(x) = p}}]
        Built(s, rp, g, p, b) ==
          Names(rp, g, p, b, isdir(b.trees, b.acc, info, s, env))
        Norm(s, rp, g, p) ==
          IF s = <<SEP>> THEN
               Res(None, listdir_root, trees, acc, info, <<>>)
          ELSE IF rp.exc # None \/ g.exc # None
               THEN Res("IndexError", None, trees, acc, info, <<>>)
          ELSE IF g.id = None
               THEN Res("ResourceNotFound", None, trees, acc, info, <<>>)
          ELSE Built(s, rp, g, p,
                     EnsureTree(trees, acc, info, g.id, g.root, env))
        Of(s) == Norm(s, isrepository(s), get_repo_id_path(s), Path(s))
        Strip(a) == IF a # <<SEP>> THEN strip(a) ELSE a
    IN  Of(Strip(IF s0 \in {<<".">>, <<".", SEP>>} THEN <<SEP>> ELSE s0))

\* FS.exists of fs.base, which ARCfs inherits: getinfo, ResourceNotFound
\* answered with False.
exists(trees, acc, info, s, env) ==
    LET Answer(r) ==
          IF r.exc = "ResourceNotFound"
          THEN [r EXCEPT !.exc = None, !.val = FALSE]
          ELSE IF r.exc # None THEN r
          ELSE [r EXCEPT !.val = TRUE]
    IN  Answer(getinfo(trees, acc, info, s, env))

\* FS.isfile of fs.base, which ARCfs inherits: not getinfo(path).is_dir,
\* ResourceNotFound answered with False.
isfile(trees, acc, info, s, env) ==
    LET Answer(r) ==
          IF r.exc = "ResourceNotFound"
          THEN [r EXCEPT !.exc = None, !.val = FALSE]
          ELSE IF r.exc # None THEN r
          ELSE [r EXCEPT !.val = ~r.val.is_dir]
    IN  Answer(getinfo(trees, acc, info, s, env))

\* ARCfs.makedir, the body under the lock.  The handle returned is given as
\* the str of the directory.
makedir(trees, acc, info, s0, recreate, env) ==
    LET Made(p, d, b) ==
          IF b.exc # None THEN [b EXCEPT !.reqs = d.reqs \o b.reqs]
          ELSE [b EXCEPT !.val = str(p), !.reqs = d.reqs \o b.reqs]
        Add(p, g, d) ==
          Made(p, d,
               build_directory_info(
                   [d.trees EXCEPT ![g.id] =
                       Upd(@, p, [is_dir |-> TRUE, name |-> last_part(p)])],
                   d.acc, info, str(p), env))
        Checked(p, g, d) ==
          IF d.exc # None THEN d
          ELSE IF d.val /\ ~recreate THEN [d EXCEPT !.exc = "DirectoryExists"]
          ELSE IF p = <<>> THEN [d EXCEPT !.exc = "IndexError"]
          \* repo_dict = self.repo_trees_dict.get(repo_id) is None
          ELSE IF g.id \notin DOMAIN d.trees
               THEN [d EXCEPT !.exc = "AttributeError"]
          ELSE Add(p, g, d)
        At(s, p) ==
          Checked(p, get_repo_id_path(str(p)), isdir(trees, acc, info, s, env))
        Of(s) == At(s, Path(s))
    IN  Of(Normalise(s0))

BranchReq(id) == Req("branches", id, 1, <<>>)

\* fs.mode.Mode: the modes the model opens files with.
Modes == {"r", "w", "x", "a"}
reading(mode) == mode = "r"
exclusive(mode) == mode = "x"

\* openbin testing for a directory only when it opens for reading.
openbin_write_unchecked(trees, acc, info, s0, mode, env) ==
    LET Stream(s, g, d, reqs) ==
          IF env.stream = "ok" THEN [d EXCEPT !.val = "stream", !.reqs = reqs]
          ELSE IF env.stream = "timeout"
               THEN [d EXCEPT !.exc = "UnboundLocalError", !.reqs = reqs]
          ELSE [d EXCEPT !.exc = "SystemExit", !.reqs = reqs]
        Read(s, g, d) ==
          IF g.exc # None THEN [d EXCEPT !.exc = g.exc]
          \* construct_url: path.replace(None, "")
          ELSE IF g.root = None THEN [d EXCEPT !.exc = "TypeError", !.val = None]
          ELSE IF env.branch # "ok"
               THEN [d EXCEPT !.exc = "SystemExit",
                              !.reqs = d.reqs \o <<BranchReq(g.id)>>]
          ELSE Stream(s, g, d, d.reqs \o <<BranchReq(g.id),
                                            Req("raw", g.id, 1, Path(s))>>)
        Write(s, g, c, r) ==
          IF c.exc # None THEN r
          ELSE IF c.val THEN [r EXCEPT !.exc = "FileExists"]
          ELSE IF g.exc # None THEN [r EXCEPT !.exc = g.exc]
          \* _get_namespace: Path(None)
          ELSE IF g.root = None THEN [r EXCEPT !.exc = "TypeError"]
          ELSE IF env.branch # "ok"
               THEN [r EXCEPT !.exc = "SystemExit",
                              !.reqs = @ \o <<BranchReq(g.id)>>]
          ELSE [r EXCEPT !.val = [file |-> "LFSFile", path |-> Tail(Path(s))],
                         !.reqs = @ \o <<BranchReq(g.id)>>]
        Exists(s, g, d, c) ==
          Write(s, g, c, [c EXCEPT !.reqs = d.reqs \o c.reqs, !.val = None])
        Checked(s, g, d) ==
          IF d.exc # None THEN d
          ELSE IF d.val /\ reading(mode)
               THEN [d EXCEPT !.exc = "FileExpected"]
          ELSE IF reading(mode) THEN Read(s, g, d)
          ELSE IF exclusive(mode)
               THEN Exists(s, g, d, [d EXCEPT !.val = FALSE, !.reqs = <<>>])
          ELSE Exists(s, g, d, check_ressource(d.trees, d.acc, info, s, env))
        Of(s) ==
          Checked(s, get_repo_id_path(s), isdir(trees, acc, info, s, env))
    IN  Of(IF s0 # <<SEP>> THEN strip(s0) ELSE s0)

\* ARCfs.openbin, the body under the lock.  A read returns the raw stream of
\* FileStreamHandler.get_file_stream; a write returns a new LFSFile, whose
\* constructor resolves the default branch.
openbin(trees, acc, info, s0, mode, env) ==
    LET Stream(s, g, d, reqs) ==
          IF env.stream = "ok" THEN [d EXCEPT !.val = "stream", !.reqs = reqs]
          ELSE IF env.stream = "timeout"
               THEN [d EXCEPT !.exc = "UnboundLocalError", !.reqs = reqs]
          ELSE [d EXCEPT !.exc = "SystemExit", !.reqs = reqs]
        Read(s, g, d) ==
          IF g.exc # None THEN [d EXCEPT !.exc = g.exc]
          \* construct_url: path.replace(None, "")
          ELSE IF g.root = None THEN [d EXCEPT !.exc = "TypeError", !.val = None]
          ELSE IF env.branch # "ok"
               THEN [d EXCEPT !.exc = "SystemExit",
                              !.reqs = d.reqs \o <<BranchReq(g.id)>>]
          ELSE Stream(s, g, d, d.reqs \o <<BranchReq(g.id),
                                            Req("raw", g.id, 1, Path(s))>>)
        Write(s, g, c, r) ==
          IF c.exc # None THEN r
          ELSE IF c.val THEN [r EXCEPT !.exc = "FileExists"]
          ELSE IF g.exc # None THEN [r EXCEPT !.exc = g.exc]
          \* _get_namespace: Path(None)
          ELSE IF g.root = None THEN [r EXCEPT !.exc = "TypeError"]
          ELSE IF env.branch # "ok"
               THEN [r EXCEPT !.exc = "SystemExit",
                              !.reqs = @ \o <<BranchReq(g.id)>>]
          ELSE [r EXCEPT !.val = [file |-> "LFSFile", path |-> Tail(Path(s))],
                         !.reqs = @ \o <<BranchReq(g.id)>>]
        Exists(s, g, d, c) ==
          Write(s, g, c, [c EXCEPT !.reqs = d.reqs \o c.reqs, !.val = None])
        Checked(s, g, d) ==
          IF d.exc # None THEN d
          ELSE IF d.val THEN [d EXCEPT !.exc = "FileExpected"]
          ELSE IF reading(mode) THEN Read(s, g, d)
          ELSE IF exclusive(mode)
               THEN Exists(s, g, d, [d EXCEPT !.val = FALSE, !.reqs = <<>>])
          ELSE Exists(s, g, d, check_ressource(d.trees, d.acc, info, s, env))
        Of(s) ==
          Checked(s, get_repo_id_path(s), isdir(trees, acc, info, s, env))
    IN  Of(IF s0 # <<SEP>> THEN strip(s0) ELSE s0)

\* ARCfs.upload up to the point where the transaction starts: the two checks
\* against the tree cache (lines 940-951).
upload_checks(trees, acc, info, s0, env) ==
    LET Free(d, c) ==
          IF c.exc # None THEN [c EXCEPT !.reqs = d.reqs \o c.reqs, !.val = None]
          ELSE IF c.val
               THEN [c EXCEPT !.reqs = d.reqs \o c.reqs, !.val = None,
                              !.exc = "FileExists"]
          ELSE [c EXCEPT !.reqs = d.reqs \o c.reqs, !.val = None]
        Parent(s, d) ==
          IF d.exc # None THEN d
          ELSE IF ~d.val THEN [d EXCEPT !.exc = "ResourceNotFound", !.val = None]
          ELSE Free(d, check_ressource(d.trees, d.acc, info, s, env))
        At(s, p) ==
          \* Path(path).parents[0]
          IF p = <<>> \/ p = <<SEP>>
          THEN Res("IndexError", None, trees, acc, info, <<>>)
          ELSE Parent(s, isdir(trees, acc, info, str(parent(p)), env))
        Of(s) == At(s, Path(s))
    IN  Of(Normalise(s0))

\* ------------------------------------------------------------------------
\* The upload transaction (lfs_file.py, and the same steps in ARCfs.upload)
\* ------------------------------------------------------------------------

Byte == {0, 1}

\* The branch the repository flags as default.
DefaultBranch == "main"

\* The branch name _create_branch synthesizes from the clock.
NewBranch == "Galaxy_Result"

\* The host of the configured server, and the host written into the URLs of
\* _create_branch, _commit_pointer_file, _modify_gitattributes and
\* _create_merge_request.
ConfiguredHost == "self.host"
ApiHost == "git.nfdi4plants.org"

\* A request of the transaction as the remote server receives it.
TxReq(kind, host) ==
    [kind |-> kind, host |-> host, oid |-> <<>>, size |-> <<>>, ref |-> None,
     branch |-> None, path |-> <<>>, body |-> <<>>, action |-> None]

\* How the batch endpoint can answer: an upload action whose header map holds
\* Transfer-Encoding, an upload action whose header map does not, no action
\* (the object is stored already), a JSON error body, a body that is no JSON.
BatchResponses == {"upload_te", "upload", "exists", "error", "undecodable"}

\* How the pointer-file commit can be answered: a JSON body, or none.
CommitResponses == {"ok", "undecodable"}

\* The status of a response whose body the code does not read.
Statuses == {"ok", "status_error"}

\* FileStreamHandler._get_default_branch
get_default_branch(resp) ==
    LET q == <<TxReq("branches", ConfiguredHost)>>
    IN  IF resp.branch = "ok"
             THEN [exc |-> None, val |-> DefaultBranch, reqs |-> q]
        ELSE IF resp.branch = "timeout"
             \* the Timeout is swallowed and r was never bound
             THEN [exc |-> "UnboundLocalError", val |-> None, reqs |-> q]
        ELSE [exc |-> "SystemExit", val |-> None, reqs |-> q]

\* LFSFile.__init__: an empty buffer, a fresh hash object, the ref resolved.
LFSFile(path, ref, resp) ==
    LET b == IF ref = None THEN get_default_branch(resp)
             ELSE [exc |-> None, val |-> ref, reqs |-> <<>>]
    IN  [exc |-> b.exc, reqs |-> b.reqs,
         file |-> [buf |-> <<>>, pos |-> 0, shasum |-> <<>>, ref |-> b.val,
                   path |-> path]]

\* The buffer after `data` is written at position pos: bytes under the data
\* are replaced, a gap past the end reads as zero bytes.
WriteAt(buf, pos, data) ==
    LET n == IF pos + Len(data) > Len(buf) THEN pos + Len(data) ELSE Len(buf)
    IN  [i \in 1..n |->
           IF i > pos /\ i <= pos + Len(data) THEN data[i - pos]
           ELSE IF i <= Len(buf) THEN buf[i]
           ELSE 0]

\* LFSFile.write: the hash object is fed the data, the buffer is written at
\* the file position.
write(f, data) ==
    [f EXCEPT !.shasum = @ \o data,
              !.buf = WriteAt(@, f.pos, data),
              !.pos = @ + Len(data)]

\* seek(offset, 0), which LFSFile inherits unchanged.
seek(f, offset) == [f EXCEPT !.pos = offset]

\* LFSFile._get_size: seek(0, 2) and tell().
get_size(f) == Len(f.buf)

\* utils.compute_size_sha: the whole content hashed from position 0, its
\* length, the file left at position 0.
compute_size_sha(file) ==
    [size |-> Len(file.buf), shasum |-> file.buf,
     file |-> [file EXCEPT !.pos = 0]]

\* LFSFile._create_branch; the response is not looked at.
create_branch(ref) ==
    [TxReq("create_branch", ApiHost) EXCEPT !.branch = NewBranch, !.ref = ref]

\* LFSFile._upload_lfs_file, and lines 970-1013 of ARCfs.upload: the batch
\* negotiation, then the PUT of the whole buffer.  r.json() raises on a body
\* that is no JSON.  Inside the try block a missing key ("objects" or
\* "actions" of the response, or "Transfer-Encoding" popped from the header
\* map without a default) raises KeyError, which is passed over: no PUT.  The
\* response of the PUT is not looked at.
upload_lfs_file(shasum, size, ref, buf, resp) ==
    LET post == [TxReq("batch", ConfiguredHost) EXCEPT
                     !.oid = shasum, !.size = <<size>>, !.ref = ref]
        put == [TxReq("put", ConfiguredHost) EXCEPT !.body = buf]
    IN  IF resp.batch = "undecodable"
             THEN [exc |-> "JSONDecodeError", reqs |-> <<post>>]
        ELSE IF resp.batch = "upload_te"
             THEN [exc |-> None, reqs |-> <<post, put>>]
        ELSE [exc |-> None, reqs |-> <<post>>]

\* LFSFile._commit_pointer_file: response.json() raises on a body that is no
\* JSON.
commit_pointer_file(path, shasum, size, branch, resp) ==
    LET q == [TxReq("commit", ApiHost) EXCEPT
                 !.path = path, !.oid = shasum, !.size = <<size>>,
                 !.branch = branch]
    IN  [exc |-> IF resp.commit = "undecodable" THEN "JSONDecodeError"
                 ELSE None,
         reqs |-> <<q>>]

\* LFSFile._modify_gitattributes: the file is fetched from `ref` and committed
\* to `ref`, with action update when the fetch succeeded and create otherwise.
modify_gitattributes(ref, path, resp) ==
    << [TxReq("gitattributes_get", ApiHost) EXCEPT !.ref = ref],
       [TxReq("gitattributes_commit", ApiHost) EXCEPT
           !.branch = ref, !.path = path,
           !.action = IF resp.gaget = "ok" THEN "update" ELSE "create"] >>

\* The merge request from the target into the working branch.
create_merge_request_swapped(ref, source_branch) ==
    [TxReq("merge_request", ApiHost) EXCEPT
        !.branch = ref, !.ref = source_branch]

\* LFSFile._create_merge_request
create_merge_request(ref, source_branch) ==
    [TxReq("merge_request", ApiHost) EXCEPT
        !.branch = source_branch, !.ref = ref]

\* close committing the pointer file before it negotiates the upload.
close_commit_first(f, resp) ==
    LET End(r1, u, c) ==
          IF c.exc # None
               THEN [exc |-> None, state |-> "ABORTED", reqs |-> r1 \o c.reqs]
          ELSE IF u.exc # None
               THEN [exc |-> u.exc, state |-> "RAISED",
                     reqs |-> r1 \o c.reqs \o u.reqs]
          ELSE [exc |-> None, state |-> "COMMITTED",
                reqs |-> r1 \o c.reqs \o u.reqs
                         \o modify_gitattributes(NewBranch, f.path, resp)
                         \o <<create_merge_request(f.ref, NewBranch)>>]
        Sized(size) ==
          End(<<create_branch(f.ref)>>,
              upload_lfs_file(f.shasum, size, f.ref, f.buf, resp),
              commit_pointer_file(f.path, f.shasum, size, NewBranch, resp))
    IN  Sized(get_size(f))

\* LFSFile.close: the requests it issues in order, the exception it raises
\* (None when none) and the state the transaction ends in.
close(f, resp) ==
    LET End(r1, u, c) ==
          IF u.exc # None
               THEN [exc |-> u.exc, state |-> "RAISED", reqs |-> r1 \o u.reqs]
          ELSE IF c.exc # None
               \* except JSONDecodeError: pass
               THEN [exc |-> None, state |-> "ABORTED",
                     reqs |-> r1 \o u.reqs \o c.reqs]
          ELSE [exc |-> None, state |-> "COMMITTED",
                reqs |-> r1 \o u.reqs \o c.reqs
                         \o modify_gitattributes(NewBranch, f.path, resp)
                         \o <<create_merge_request(f.ref, NewBranch)>>]
        Sized(size) ==
          End(<<create_branch(f.ref)>>,
              upload_lfs_file(f.shasum, size, f.ref, f.buf, resp),
              commit_pointer_file(f.path, f.shasum, size, NewBranch, resp))
    IN  Sized(get_size(f))

\* Path(path).parts[1:]
parts_from_1(p) == IF p = <<>> THEN <<>> ELSE Tail(p)

\* ARCfs.upload from line 953 on: the transaction on a file object, for the
\* parts p of the normalised path.  The names of the model carry no suffix;
\* utils.clean_file_ext leaves such a path as it is, and raises ValueError
\* (with_suffix on a path without a name) when nothing follows the
\* repository in p.
upload_transaction(p, file, ref, resp) ==
    LET End(b, r1, u, c, path2) ==
          IF b.exc # None
               THEN [exc |-> b.exc, state |-> "RAISED", reqs |-> b.reqs]
          ELSE IF u.exc # None
               THEN [exc |-> u.exc, state |-> "RAISED",
                     reqs |-> b.reqs \o r1 \o u.reqs]
          ELSE IF parts_from_1(p) = <<>>
               THEN [exc |-> "ValueError", state |-> "RAISED",
                     reqs |-> b.reqs \o r1 \o u.reqs]
          ELSE IF c.exc # None
               \* the commit is in no try block
               THEN [exc |-> c.exc, state |-> "RAISED",
                     reqs |-> b.reqs \o r1 \o u.reqs \o c.reqs]
          ELSE [exc |-> None, state |-> "COMMITTED",
                reqs |-> b.reqs \o r1 \o u.reqs \o c.reqs
                         \o modify_gitattributes(ref, path2, resp)
                         \o <<create_merge_request(b.val, NewBranch)>>]
        Steps(b, info, path1) ==
          End(b, <<create_branch(b.val)>>,
              upload_lfs_file(info.shasum, info.size, b.val, file.buf, resp),
              commit_pointer_file(path1, info.shasum, info.size, NewBranch,
                                  resp),
              parts_from_1(path1))
    IN  Steps(IF ref = None THEN get_default_branch(resp)
              ELSE [exc |-> None, val |-> ref, reqs |-> <<>>],
              compute_size_sha(file), parts_from_1(p))

\* The requests of the transaction in the form of the requests of a call.
CallReqs(id, reqs) ==
    [i \in DOMAIN reqs |-> Req(reqs[i].kind, id, 1, reqs[i].path)]

\* ARCfs.upload, the body under the lock.
upload(trees, acc, info, s0, file, ref, env) ==
    LET Run(c, g, t) ==
          [c EXCEPT !.exc = t.exc, !.reqs = @ \o CallReqs(g.id, t.reqs)]
        Checked(s, c) ==
          IF c.exc # None THEN c
          ELSE Run(c, get_repo_id_path(s),
                   upload_transaction(Path(s), file, ref, env))
        Of(s) == Checked(s, upload_checks(trees, acc, info, s0, env))
    IN  Of(Normalise(s0))

\* ------------------------------------------------------------------------
\* The file system calls of one single-threaded session
\* ------------------------------------------------------------------------

\* The paths the session passes to the calls.
InputPaths ==
    { <<SEP>>, <<".">>, <<".", SEP>>, <<"A">>,
      <<"A", SEP, "d">>, <<"A", SEP, "d", SEP, "e">>,
      <<"A", SEP, "d", SEP, "f">>,
      <<SEP, "A", SEP, "g">>, <<"A", SEP, "n">>, <<"A", SEP, "g", SEP, "z">>,
      <<"A", SEP, "n", SEP, "z">>,
      <<"B", SEP, "h">>, <<"X", SEP, "y">> }

\* The initial descriptors of _build_initial_repository_info.
InitialInfo ==
    [p \in DOMAIN repos_dictionary |-> DirInfo(last_part(p))]

\* The calls one session makes.
MaxCalls == 3

fsVars ==
    <<repo_trees_dict, accesed_repositories, info_dict, opReqs, ret, calls>>

txVars == <<tx, txlog>>

batchVars == <<batch, tasks>>

concVars == <<thr, lock>>

vars == <<fsVars, txVars, batchVars, concVars>>

\* No transaction is open.
NoFile == [buf |-> <<>>, pos |-> 0, shasum |-> <<>>, ref |-> None, path |-> <<>>]
NoTx == [via |-> None, state |-> None, file |-> NoFile, exc |-> None,
         given |-> None,
         resp |-> OkEnv]

\* The file objects the session uploads, and the refs it names.
UploadFiles == {[buf |-> <<1, 0>>, pos |-> 0]}
Refs == {None, "dev"}

Idle ==
    [op |-> "idle", arg |-> None, path |-> <<>>, exc |-> None, val |-> None,
     pagefail |-> FALSE, probefail |-> FALSE, env |-> OkEnv, seen |-> {}]

\* The threads that call the file system.
NThreads == 2
Threads == 1..NThreads

NoCall == [op |-> None, arg |-> None, path |-> <<>>, pc |-> "idle",
           dd |-> <<>>, exc |-> None]

\* A new ARCfs object: empty caches, no call made, no transaction open, no
\* batch running, every thread outside the file system, the lock free.
Init ==
    /\ repo_trees_dict = <<>>
    /\ accesed_repositories = {}
    /\ info_dict = InitialInfo
    /\ opReqs = <<>>
    /\ ret = Idle
    /\ calls = 0
    /\ tx = NoTx
    /\ txlog = <<>>
    /\ batch = [step |-> "idle", value |-> 0, bound |-> 0]
    /\ tasks = <<>>
    /\ thr = [t \in Threads |-> NoCall]
    /\ lock = 0

Kinds(r) == {r.reqs[i].kind : i \in DOMAIN r.reqs}

ProbedPaths(r) ==
    {r.reqs[i].path : i \in {j \in DOMAIN r.reqs : r.reqs[j].kind = "probe"}}

\* The failing requests one call meets.
MaxFaults == 1

NFaults(e) ==
    Cardinality({k \in DOMAIN e.pages : e.pages[k] # "ok"})
    + Cardinality({k \in DOMAIN e.probe : e.probe[k] # "ok"})
    + (IF e.branch # "ok" THEN 1 ELSE 0)
    + (IF e.stream # "ok" THEN 1 ELSE 0)
    + (IF e.batch # "upload_te" THEN 1 ELSE 0)
    + (IF e.commit # "ok" THEN 1 ELSE 0)

\* The outcomes the server can give the requests of a call F on a path of
\* repository `id`: one choice for each kind of request the call issues when
\* nothing fails.
Envs(id, F(_)) ==
    LET r0 == F(OkEnv)
        uses == Kinds(r0)
    IN  {e \in [pages : IF "tree" \in uses THEN PageOutcomesOf(id)
                        ELSE {OkPages},
                probe : [ProbedPaths(r0) -> ProbeOutcomes],
                branch : IF "branches" \in uses THEN {"ok", "fail"}
                         ELSE {"ok"},
                stream : IF "raw" \in uses THEN Outcomes ELSE {"ok"},
                batch : IF "batch" \in uses THEN BatchResponses
                        ELSE {"upload_te"},
                put : {"ok"},
                commit : IF "commit" \in uses THEN CommitResponses
                         ELSE {"ok"},
                gaget : {"ok"},
                loop : IF "probe" \in uses THEN BOOLEAN ELSE {FALSE}] :
           NFaults(e) <= MaxFaults}

\* The session is single-threaded: a call starts when the previous one has
\* returned.
CanCall == ret.op = "idle" /\ calls < MaxCalls

\* A page request of a tree listing among `reqs` failed.
PageFailed(reqs, env) ==
    \E i \in DOMAIN reqs :
       reqs[i].kind = "tree" /\ env.pages[reqs[i].page] # "ok"

\* A probe of a metadata batch among `reqs` raised.
ProbeFailed(reqs, env) ==
    \E i \in DOMAIN reqs :
       reqs[i].kind = "probe" /\ ProbeOf(env, reqs[i].path) = "error"

\* The call was a getinfo that returned the descriptor of a file.
ReturnedFile(op, r) ==
    /\ op = "getinfo"
    /\ r.exc = None
    /\ ~r.val.is_dir

\* The state a call leaves; `seen` keeps the files getinfo has returned a
\* descriptor for.
Leave(op, arg, s, r, env) ==
    /\ repo_trees_dict' = r.trees
    /\ accesed_repositories' = r.acc
    /\ info_dict' = r.info
    /\ opReqs' = r.reqs
    /\ ret' = [op |-> op, arg |-> arg, path |-> s, exc |-> r.exc,
               val |-> r.val, pagefail |-> PageFailed(r.reqs, env),
               probefail |-> ProbeFailed(r.reqs, env), env |-> env,
               seen |-> IF ReturnedFile(op, r)
                        THEN ret.seen \cup {Path(Normalise(s))}
                        ELSE ret.seen]
    /\ calls' = calls + 1
    /\ UNCHANGED <<txVars, batchVars, concVars>>

RepoOf(s) == get_repo_id_path(Normalise(s)).id

\* One call: the server's answers are chosen, the call runs, its outcome and
\* the caches it leaves become the state.
Call(op, arg, s, F(_)) ==
    \E env \in Envs(RepoOf(s), F) :
      \E r \in {F(env)} : Leave(op, arg, s, r, env)

GetInfo ==
    /\ CanCall
    /\ \E s \in InputPaths :
         Call("getinfo", None, s,
              LAMBDA e : getinfo(repo_trees_dict, accesed_repositories,
                                 info_dict, s, e))

ListDir ==
    /\ CanCall
    /\ \E s \in InputPaths :
         Call("listdir", None, s,
              LAMBDA e : listdir(repo_trees_dict, accesed_repositories,
                                 info_dict, s, e))

IsDir ==
    /\ CanCall
    /\ \E s \in InputPaths :
         Call("isdir", None, s,
              LAMBDA e : isdir(repo_trees_dict, accesed_repositories,
                               info_dict, s, e))

Exists ==
    /\ CanCall
    /\ \E s \in InputPaths :
         Call("exists", None, s,
              LAMBDA e : exists(repo_trees_dict, accesed_repositories,
                                info_dict, s, e))

OpenBin ==
    /\ CanCall
    /\ \E s \in InputPaths, mode \in Modes :
         Call("openbin", mode, s,
              LAMBDA e : openbin(repo_trees_dict, accesed_repositories,
                                 info_dict, s, mode, e))

Upload ==
    /\ CanCall
    /\ \E s \in InputPaths, file \in UploadFiles, ref \in Refs :
         Call("upload", ref, s,
              LAMBDA e : upload(repo_trees_dict, accesed_repositories,
                                info_dict, s, file, ref, e))

MakeDir ==
    /\ CanCall
    /\ \E s \in InputPaths, recreate \in BOOLEAN :
         Call("makedir", IF recreate THEN "recreate" ELSE "once", s,
              LAMBDA e : makedir(repo_trees_dict, accesed_repositories,
                                 info_dict, s, recreate, e))

\* ARCfs.remove, removedir and setinfo are defined with no parameter at all
\* (`def remove():`): the call fs.remove(path) passes self and path, and
\* Python raises TypeError before the body, `raise Unsupported`, is entered.
unsupported(trees, acc, info) ==
    Res("TypeError", None, trees, acc, info, <<>>)

Remove ==
    /\ CanCall
    /\ \E s \in InputPaths :
         Call("remove", None, s,
              LAMBDA e : unsupported(repo_trees_dict, accesed_repositories,
                                     info_dict))

RemoveDir ==
    /\ CanCall
    /\ \E s \in InputPaths :
         Call("removedir", None, s,
              LAMBDA e : unsupported(repo_trees_dict, accesed_repositories,
                                     info_dict))

SetInfo ==
    /\ CanCall
    /\ \E s \in InputPaths :
         Call("setinfo", None, s,
              LAMBDA e : unsupported(repo_trees_dict, accesed_repositories,
                                     info_dict))

\* The caller takes the outcome of the call.
Return ==
    /\ ret.op # "idle"
    /\ ret' = [Idle EXCEPT !.seen = ret.seen]
    /\ opReqs' = <<>>
    /\ UNCHANGED <<repo_trees_dict, accesed_repositories, info_dict, calls>>
    /\ UNCHANGED <<txVars, batchVars, concVars>>

NextFS ==
    GetInfo \/ ListDir \/ IsDir \/ Exists \/ OpenBin \/ Upload \/ MakeDir
    \/ Remove \/ RemoveDir \/ SetInfo \/ Return

SpecFS == Init /\ [][NextFS]_vars

\* ------------------------------------------------------------------------
\* Claims on the tree cache, checked under SpecFS
\* ------------------------------------------------------------------------

\* The call that returned issued a tree-listing request for repository id.
TreeRequested(reqs, id) ==
    \E i \in DOMAIN reqs : reqs[i].kind = "tree" /\ reqs[i].id = id

\* Two entry sets agree everywhere but at path p.
SameBut(t1, t2, p) ==
    /\ DOMAIN t1 \ {p} = DOMAIN t2 \ {p}
    /\ \A k \in DOMAIN t1 \ {p} : t1[k] = t2[k]

\* C3 as stated: in a single-threaded session, once the listing of a
\* repository id has been built, no later call issues a tree-listing request
\* for that id and the entry set cached for it stays identical.
C3_FetchedOnceLeftIdentical ==
    [][\A id \in DOMAIN repo_trees_dict :
          /\ ~TreeRequested(opReqs', id)
          /\ id \in DOMAIN repo_trees_dict'
          /\ repo_trees_dict'[id] = repo_trees_dict[id]]_vars

\* C3 amended: once the listing of a repository id has been built, no later
\* call issues a tree-listing request for that id, the id stays in both
\* caches, and the entry set changes only by a makedir call, and then only at
\* the path makedir was given, which is a directory afterwards.
C3_FetchedOnceChangedOnlyByMakedir ==
    [][/\ DOMAIN repo_trees_dict' = accesed_repositories'
       /\ \A id \in DOMAIN repo_trees_dict :
            /\ ~TreeRequested(opReqs', id)
            /\ id \in DOMAIN repo_trees_dict'
            /\ \/ repo_trees_dict'[id] = repo_trees_dict[id]
               \/ /\ ret'.op = "makedir"
                  /\ SameBut(repo_trees_dict'[id], repo_trees_dict[id],
                             Path(Normalise(ret'.path)))
                  /\ repo_trees_dict'[id][Path(Normalise(ret'.path))].is_dir
      ]_vars

\* A second listdir of repository "1" answered from the cache alone.
C3_Witness ==
    /\ ret.op = "listdir"
    /\ ret.path = <<"A", SEP, "d">>
    /\ ret.exc = None
    /\ calls >= 2
    /\ ~TreeRequested(opReqs, "1")
    /\ "1" \in DOMAIN repo_trees_dict

\* C4 as stated: a call in which a page request of the tree listing failed
\* left the repository in neither cache, and every committed entry set holds
\* every entry of every page of the listing.
C4_AllPagesOrNothing ==
    /\ ret.pagefail =>
          /\ RepoOf(ret.path) \notin DOMAIN repo_trees_dict
          /\ RepoOf(ret.path) \notin accesed_repositories
    /\ \A id \in DOMAIN repo_trees_dict :
          \A k \in DOMAIN RemoteTree(id) :
             \A i \in DOMAIN RemoteTree(id)[k] :
                <<repos_root(id)>> \o RemoteTree(id)[k][i].path
                   \in DOMAIN repo_trees_dict[id]

\* ------------------------------------------------------------------------
\* Claims on the calls of the namespace, checked under SpecFS
\* ------------------------------------------------------------------------

\* The path of the call that returned, as parts.
CalledPath == Path(Normalise(ret.path))

\* The spellings of the root.
RootSpellings == {<<SEP>>, <<".">>, <<".", SEP>>}

\* C21: listdir of the root, given as "/", "." or "./", returns exactly the
\* display paths of the catalog records that have a repository id, without
\* the record of the root, and issues no remote request.
C21_RootListsRepositories ==
    (ret.op = "listdir" /\ ret.path \in RootSpellings) =>
       /\ ret.exc = None
       /\ ret.val = {str(RemoteProjects[i].path_formated) :
                       i \in DOMAIN RemoteProjects}
       /\ <<SEP>> \notin ret.val
       /\ opReqs = <<>>

\* The root listed under the spelling "./" after a tree was built.
C21_Witness ==
    /\ ret.op = "listdir"
    /\ ret.path = <<".", SEP>>
    /\ ret.val = {<<"A">>, <<"B">>}
    /\ repo_trees_dict # <<>>

\* The names of the entries of a tree whose parent is p.
NamesUnder(tree, p) == {name(k) : k \in {x \in DOMAIN tree : parent(x) = p}}

\* C22: for a path p that is not the root, listdir raises ResourceNotFound
\* when the first segment of p is no display path of the catalog or p is no
\* entry of the tree of its repository, raises DirectoryExpected when p is a
\* file of the tree, and otherwise (p is a repository root or a directory of
\* the tree) returns exactly the names of the entries whose parent is p.
C22_ListsChildrenOfDirectory ==
    LET In(p, tree) ==
          IF p \notin DOMAIN tree THEN ret.exc = "ResourceNotFound"
          ELSE IF ~tree[p].is_dir THEN ret.exc = "DirectoryExpected"
          ELSE ret.exc = None /\ ret.val = NamesUnder(tree, p)
        Of(p, id) ==
          IF id = None THEN ret.exc = "ResourceNotFound"
          ELSE id \in DOMAIN repo_trees_dict => In(p, repo_trees_dict[id])
    IN  (ret.op = "listdir" /\ ret.path \notin RootSpellings) =>
           Of(CalledPath, RepoOf(ret.path))

\* A directory of a tree listed with its two files.
C22_Witness ==
    /\ ret.op = "listdir"
    /\ ret.path = <<"A", SEP, "d">>
    /\ ret.exc = None
    /\ ret.val = {"e", "f"}

\* p is not the root, no display path of the catalog and no entry of the
\* tree cached for its repository.
Absent(p, id) ==
    /\ p \notin DOMAIN repos_dictionary
    /\ id # None =>
          id \in DOMAIN repo_trees_dict /\ p \notin DOMAIN repo_trees_dict[id]

\* Every remote request of the call that returned was answered with success.
AllAnswered == NFaults(ret.env) = 0

IsEntry(trees, p, id, dir) ==
    /\ id # None
    /\ id \in DOMAIN trees
    /\ p \in DOMAIN trees[id]
    /\ p \notin DOMAIN repos_dictionary
    /\ trees[id][p].is_dir = dir

Requested(kinds) == \E i \in DOMAIN opReqs : opReqs[i].kind \in kinds

\* The requests that write to the remote repository.
WriteKinds ==
    {"create_branch", "batch", "put", "commit", "gitattributes_get",
     "gitattributes_commit", "merge_request"}

\* C25: openbin on the root, on a repository root or on a directory of a
\* tree raises FileExpected in each of the modes r, w, x and a, requests no
\* read stream and creates no upload transaction (no LFSFile, whose
\* constructor looks the default branch up).
C25_DirectoryIsNoFile ==
    (/\ ret.op = "openbin"
     /\ \/ CalledPath \in DOMAIN repos_dictionary
        \/ IsEntry(repo_trees_dict, CalledPath, RepoOf(ret.path), TRUE))
    => /\ ret.exc = "FileExpected"
       /\ ~Requested({"raw", "branches"} \cup WriteKinds)

\* openbin for writing on a directory of a tree the call had to build.
C25_Witness ==
    /\ ret.op = "openbin"
    /\ ret.arg = "x"
    /\ ret.path = <<"A", SEP, "d">>
    /\ ret.exc = "FileExpected"
    /\ Requested({"tree"})

\* C26 as stated: openbin in a writing mode (w, x or a) on a path that the
\* tree cache lists as a file raises FileExists and creates no upload
\* transaction.
C26_WriteOverFileRaises ==
    (/\ ret.op = "openbin"
     /\ ret.arg \in {"w", "x", "a"}
     /\ IsEntry(repo_trees_dict, CalledPath, RepoOf(ret.path), FALSE))
    => /\ ret.exc = "FileExists"
       /\ ~Requested({"branches"} \cup WriteKinds)

\* openbin in mode x on a listed file has returned an LFSFile.
C26_Witness ==
    /\ ret.op = "openbin"
    /\ ret.arg = "x"
    /\ ret.path = <<"A", SEP, "d", SEP, "f">>
    /\ ret.exc = None
    /\ Requested({"branches"})

\* The parent of p is no directory: neither the root, nor a display path of
\* the catalog, nor a directory of the tree cached for the repository.
ParentIsNoDirectory(p, id) ==
    /\ Len(p) > 1
    /\ parent(p) \notin DOMAIN repos_dictionary
    /\ id # None => id \in DOMAIN repo_trees_dict
    /\ ~IsEntry(repo_trees_dict, parent(p), id, TRUE)

\* C27 as stated: upload raises ResourceNotFound when the parent of the
\* target is no existing directory and FileExists when the tree cache lists
\* the target already, and in both cases issues no remote write request.
C27_UploadChecksTarget ==
    LET Case(p, id) ==
          /\ ParentIsNoDirectory(p, id) =>
                ret.exc = "ResourceNotFound" /\ ~Requested(WriteKinds)
          /\ (~ParentIsNoDirectory(p, id)
              /\ IsEntry(repo_trees_dict, p, id, FALSE)) =>
                ret.exc = "FileExists" /\ ~Requested(WriteKinds)
    IN  ret.op = "upload" => Case(CalledPath, RepoOf(ret.path))

\* An upload onto a listed file has run its whole transaction.
C27_Witness ==
    /\ ret.op = "upload"
    /\ ret.path = <<"A", SEP, "d", SEP, "f">>
    /\ ret.exc = None
    /\ Requested({"merge_request"})

\* p exists before the call: the root, a display path of the catalog, or an
\* entry (directory or file) of the tree cached for its repository.
ExistsInNamespace(p, id) ==
    \/ p \in DOMAIN repos_dictionary
    \/ /\ id # None
       /\ id \in DOMAIN repo_trees_dict
       /\ p \in DOMAIN repo_trees_dict[id]

\* C28 as stated: makedir with recreate=False on a path that exists (the
\* root, a repository root, a directory or a file of a tree) raises
\* DirectoryExists and leaves repo_trees_dict and info_dict as they were.
C28_MakedirOnExistingRaises ==
    [][(/\ ret'.op = "makedir"
        /\ ret'.arg = "once"
        /\ ExistsInNamespace(CalledPath', RepoOf(ret'.path)))
       => /\ ret'.exc = "DirectoryExists"
          /\ repo_trees_dict' = repo_trees_dict
          /\ info_dict' = info_dict
      ]_vars

\* makedir with recreate=False on a listed file has returned and the entry
\* of the file is a directory.
C28_Witness ==
    /\ ret.op = "makedir"
    /\ ret.arg = "once"
    /\ ret.path = <<"B", SEP, "h">>
    /\ ret.exc = None
    /\ repo_trees_dict["2"][<<"B", "h">>].is_dir

\* C29 as stated: makedir with recreate=True on an existing directory (a
\* repository root, its tree built or not, or a directory of a cached tree)
\* raises nothing, changes no entry of repo_trees_dict or info_dict, issues
\* no remote request and returns the handle of the directory.
C29_RecreateIsNoOp ==
    [][(/\ ret'.op = "makedir"
        /\ ret'.arg = "recreate"
        /\ \/ CalledPath' \in DOMAIN repos_dictionary \ {<<SEP>>}
           \/ IsEntry(repo_trees_dict, CalledPath', RepoOf(ret'.path), TRUE))
       => /\ ret'.exc = None
          /\ ret'.val = str(CalledPath')
          /\ opReqs' = <<>>
          /\ repo_trees_dict' = repo_trees_dict
          /\ info_dict' = info_dict
      ]_vars

\* makedir with recreate=True on a directory of a cached tree has probed the
\* files of the directory.
C29_Witness ==
    /\ ret.op = "makedir"
    /\ ret.arg = "recreate"
    /\ ret.path = <<"A", SEP, "d">>
    /\ ret.exc = None
    /\ Requested({"probe"})
    /\ ~Requested({"tree"})

\* C30 as stated: remove, removedir and setinfo fail with Unsupported on
\* every path, issue no remote request and leave every cache unchanged.
C30_UnsupportedCalls ==
    [][ret'.op \in {"remove", "removedir", "setinfo"} =>
          /\ ret'.exc = "Unsupported"
          /\ opReqs' = <<>>
          /\ repo_trees_dict' = repo_trees_dict
          /\ accesed_repositories' = accesed_repositories
          /\ info_dict' = info_dict
      ]_vars

\* A remove that failed after a tree was built, the caches left as they were.
C30_Witness ==
    /\ ret.op = "remove"
    /\ ret.exc # None
    /\ opReqs = <<>>
    /\ "1" \in DOMAIN repo_trees_dict

\* C36: a call on a path whose first segment is no display path of the
\* catalog issues no remote request: no request of any call carries a none
\* repository id.
C36_NoRequestForUnresolved ==
    /\ \A i \in DOMAIN opReqs : opReqs[i].id # None
    /\ (ret.op \in {"getinfo", "exists", "isdir", "listdir", "openbin",
                    "upload"}
        /\ ret.path \notin RootSpellings
        /\ RepoOf(ret.path) = None) => opReqs = <<>>

\* isdir("X/y") answered False without a request.
C36_Witness ==
    /\ ret.op = "isdir"
    /\ ret.path = <<"X", SEP, "y">>
    /\ RepoOf(ret.path) = None
    /\ ret.exc = None
    /\ ret.val = FALSE
    /\ opReqs = <<>>

\* The tree the remote server lists for the repository.
FullTree(id) ==
    DirectoryDict(id, repos_root(id), [k \in DOMAIN RemoteTree(id) |-> k])

\* Before the call p did not exist in its repository: no display path of the
\* catalog and no entry of the tree of the repository (the cached tree, or
\* the listing of the server when none is cached).
NotThere(p, id) ==
    /\ p \notin DOMAIN repos_dictionary
    /\ id # None
    /\ IF id \in DOMAIN repo_trees_dict
       THEN p \notin DOMAIN repo_trees_dict[id]
       ELSE p \notin DOMAIN FullTree(id)

\* With the given caches p is a directory for isdir, for getinfo and for
\* listdir of its parent.
IsListedDirectory(trees, acc, info, p) ==
    LET Chk(d, g, l) ==
          /\ d.exc = None /\ d.val
          /\ g.exc = None /\ g.val.is_dir
          /\ l.exc = None /\ name(p) \in l.val
    IN  Chk(isdir(trees, acc, info, str(p), OkEnv),
            getinfo(trees, acc, info, str(p), OkEnv),
            listdir(trees, acc, info, str(parent(p)), OkEnv))

\* The entries of the cached trees the server does not list.
MadeEntries ==
    UNION {DOMAIN repo_trees_dict[id] \ DOMAIN FullTree(id) :
              id \in DOMAIN repo_trees_dict}

\* C38: a makedir that succeeds on a path that did not exist issues no write
\* request and leaves the path a directory for isdir, getinfo and listdir of
\* its parent; and a made path that is such a directory stays one under
\* every later call.
C38_MadeDirectoryStays ==
    [][/\ (/\ ret'.op = "makedir"
           /\ ret'.exc = None
           /\ NotThere(CalledPath', RepoOf(ret'.path)))
          => /\ \A i \in DOMAIN opReqs' : opReqs'[i].kind \notin WriteKinds
             /\ IsListedDirectory(repo_trees_dict', accesed_repositories',
                                  info_dict', CalledPath')
       /\ \A p \in MadeEntries :
             IsListedDirectory(repo_trees_dict, accesed_repositories,
                               info_dict, p)
             => IsListedDirectory(repo_trees_dict', accesed_repositories',
                                  info_dict', p)
      ]_vars

\* makedir("A/n/z") succeeded on a path whose parent "A/n" does not exist.
C38_Witness ==
    /\ ret.op = "makedir"
    /\ ret.exc = None
    /\ CalledPath = <<"A", "n", "z">>
    /\ <<"A", "n">> \notin DOMAIN repo_trees_dict["1"]
    /\ <<"A", "n", "z">> \in MadeEntries

\* The probes of the call that were answered with 404.
NotFoundProbes ==
    {q \in DOMAIN ret.env.probe : ret.env.probe[q] = "notfound"}

\* C33: when getinfo probes the files of a directory and one of them is
\* answered with 404, getinfo of another file of the directory returns the
\* descriptor of that file, and getinfo of the 404 file raises
\* ResourceNotFound.
C33_NotFoundSiblingIsSkipped ==
    (ret.op = "getinfo" /\ NotFoundProbes # {}) =>
       IF CalledPath \in NotFoundProbes
       THEN ret.exc = "ResourceNotFound"
       ELSE /\ ret.exc = None
            /\ ~ret.val.is_dir
            /\ ret.val.name = name(CalledPath)

\* getinfo("A/d/e") probed "A/d/e" and "A/d/f", and "A/d/f" was not found.
C33_Witness ==
    /\ ret.op = "getinfo"
    /\ CalledPath = <<"A", "d", "e">>
    /\ NotFoundProbes = {<<"A", "d", "f">>}
    /\ \E i \in DOMAIN opReqs :
         opReqs[i].kind = "probe" /\ opReqs[i].path = <<"A", "d", "f">>

\* The page the k-th request of a listing asks for: the one after the page
\* of the response held in r, the last request that was answered.
\*   download_url = r.links["next"]["url"]
AskedPage(outs, k) == 1 + Cardinality({j \in 1..(k - 1) : outs[j] = "ok"})

\* The page requests of the tree listing the call issued.
TreePageReqs == {i \in DOMAIN opReqs : opReqs[i].kind = "tree"}

\* C19 as stated, on the paginated fetch of a repository tree: within a call
\* no page is requested twice, a page request that fails in any way, a
\* timeout included, is the last request of the listing and the call raises,
\* and a listing that is returned holds every page once, in page order.
C19_EachPageOnceFailureEnds ==
    LET Pages(n, outs, f) ==
          /\ \A j \in 1..n, k \in 1..n :
                j < k => AskedPage(outs, j) # AskedPage(outs, k)
          /\ \A k \in 1..n : outs[k] # "ok" => k = n /\ ret.exc # None
          /\ f.exc = None =>
                f.got = [k \in 1..Len(RemoteTree(RepoOf(ret.path))) |-> k]
    IN  TreePageReqs # {} =>
           Pages(Cardinality(TreePageReqs), ret.env.pages,
                 FetchTree(RepoOf(ret.path), ret.env.pages))

\* A listing of three pages whose second request timed out is returned.
C19_Witness ==
    /\ Cardinality(TreePageReqs) = 3
    /\ ret.env.pages[2] = "timeout"
    /\ ret.exc = None
    /\ "1" \in DOMAIN repo_trees_dict

\* p is a file of the tree cached for the repository of the path s.
IsCachedFile(s, p) ==
    /\ RepoOf(s) \in DOMAIN repo_trees_dict
    /\ p \in DOMAIN repo_trees_dict[RepoOf(s)]
    /\ ~repo_trees_dict[RepoOf(s)][p].is_dir

\* C15 as stated: the descriptor getinfo returns for a file carries the size
\* the probe reported for it, and once getinfo has returned the descriptor of
\* a file, a getinfo for that file or for another file of the same directory
\* returns the stored descriptor and issues no remote request.
C15_DirectoryAnsweredFromCache ==
    [][/\ ReturnedFile(ret'.op, ret') =>
            ret'.val.size = <<RemoteSize(RepoOf(ret'.path), Tail(CalledPath'))>>
       /\ (/\ ret'.op = "getinfo"
           /\ IsCachedFile(ret'.path, CalledPath')
           /\ \E f \in ret.seen : parent(f) = parent(CalledPath'))
          => /\ ret'.exc = None
             /\ opReqs' = <<>>
             /\ CalledPath' \in DOMAIN info_dict
             /\ ret'.val = info_dict[CalledPath']
      ]_vars

\* A getinfo of "A/d/f" after getinfo has returned the descriptor of "A/d/e".
C15_Witness ==
    /\ ret.op = "getinfo"
    /\ CalledPath = <<"A", "d", "f">>
    /\ <<"A", "d", "e">> \in ret.seen
    /\ opReqs # <<>>

\* C17: when a probe of a metadata batch raised, the call that ran the batch
\* raises, and info_dict holds no file descriptor it did not hold before the
\* call, whether the batch ran under asyncio.run or in a RunThread.
C17_FailedProbeFailsBatch ==
    [][ret'.probefail =>
          /\ ret'.exc # None
          /\ \A p \in DOMAIN info_dict' :
                ~info_dict'[p].is_dir =>
                   p \in DOMAIN info_dict /\ info_dict[p] = info_dict'[p]
      ]_vars

\* A getinfo of a file whose directory holds two files, the probe of the
\* second one raised, with a loop running in the calling context.
C17_Witness ==
    /\ ret.op = "getinfo"
    /\ ret.probefail
    /\ ret.env.loop
    /\ ProbeOf(ret.env, <<"A", "d", "f">>) = "error"
    /\ ret.exc # None
    /\ <<"A", "d", "e">> \notin DOMAIN info_dict

\* C18 as stated: a getinfo has the same outcome whether or not an event loop
\* runs in the calling context: the same exception or the same descriptor,
\* and the same info_dict.
C18_SameOutcomeInBothRegimes ==
    [][ret'.op = "getinfo" =>
          LET Same(o) ==
                /\ o.exc = ret'.exc
                /\ o.info = info_dict'
                /\ o.exc = None => o.val = ret'.val
          IN  Same(getinfo(repo_trees_dict, accesed_repositories, info_dict,
                           ret'.path, [ret'.env EXCEPT !.loop = ~@]))
      ]_vars

\* ------------------------------------------------------------------------
\* One upload transaction: an LFSFile that is constructed, written and
\* closed, or one ARCfs.upload call
\* ------------------------------------------------------------------------

\* The bytes one transaction writes, the bytes of one write call, and the
\* offsets it seeks to.
MaxWritten == 3
MaxChunk == 2
MaxSeek == 2

RECURSIVE ByteSeqs(_)
ByteSeqs(n) ==
    IF n = 0 THEN {<<>>}
    ELSE ByteSeqs(n - 1)
         \cup {Append(q, b) : q \in {x \in ByteSeqs(n - 1) : Len(x) = n - 1},
                              b \in Byte}

\* The answers of the remote server to the requests of one transaction.
TxResps ==
    {[OkEnv EXCEPT !.branch = br, !.batch = ba, !.put = pu, !.commit = co,
                   !.gaget = ga] :
        br \in Outcomes, ba \in BatchResponses, pu \in Statuses,
        co \in CommitResponses, ga \in Statuses}

\* The paths inside the repository an LFSFile is constructed with, and the
\* paths ARCfs.upload is called with (normalised, as parts).
TxPaths == {<<"n">>, <<"d", "n">>}
UploadPaths == {<<"A", "n">>, <<"A", "d", "n">>}

\* The requests `reqs` as the log holds them: each with the step of the
\* transaction that issued it.
During(step, reqs) == [i \in DOMAIN reqs |-> [during |-> step, req |-> reqs[i]]]

\* The places of the log that hold a request of the given kind.
Logged(kind) == {i \in DOMAIN txlog : txlog[i].req.kind = kind}

\* LFSFile(...): the constructor.
Open ==
    /\ tx.via = None
    /\ \E ref \in Refs, path \in TxPaths,
          resp \in {e \in TxResps : e = [OkEnv EXCEPT !.branch = e.branch]} :
         \E r \in {LFSFile(path, ref, resp)} :
           /\ tx' = [via |-> "LFSFile",
                     state |-> IF r.exc = None THEN "OPEN" ELSE "RAISED",
                     file |-> r.file, exc |-> r.exc, given |-> ref,
                     resp |-> resp]
           /\ txlog' = txlog \o During("init", r.reqs)
    /\ UNCHANGED <<fsVars, batchVars, concVars>>

Writable == tx.via = "LFSFile" /\ tx.state \in {"OPEN", "WRITING"}

\* LFSFile.write(data)
Write ==
    /\ Writable
    /\ \E data \in ByteSeqs(MaxChunk) \ {<<>>} :
         /\ Len(tx.file.shasum) + Len(data) <= MaxWritten
         /\ tx' = [tx EXCEPT !.state = "WRITING", !.file = write(@, data)]
    /\ UNCHANGED <<txlog, fsVars, batchVars, concVars>>

\* LFSFile.seek(offset)
Seek ==
    /\ Writable
    /\ \E offset \in 0..MaxSeek :
         /\ offset # tx.file.pos
         /\ tx' = [tx EXCEPT !.state = "WRITING", !.file = seek(@, offset)]
    /\ UNCHANGED <<txlog, fsVars, batchVars, concVars>>

\* LFSFile.close()
Close ==
    /\ Writable
    /\ \E resp \in {e \in TxResps : e.branch = "ok"} :
         \E r \in {close(tx.file, resp)} :
           /\ tx' = [tx EXCEPT !.state = r.state, !.exc = r.exc,
                               !.resp = resp]
           /\ txlog' = txlog \o During("close", r.reqs)
    /\ UNCHANGED <<fsVars, batchVars, concVars>>

\* ARCfs.upload(path, file, ref=ref), from the start of the transaction.
UploadFile ==
    /\ tx.via = None
    /\ \E buf \in ByteSeqs(MaxChunk), ref \in Refs, resp \in TxResps,
          path \in UploadPaths :
         \E pos \in 0..Len(buf) :
         \E r \in {upload_transaction(path, [buf |-> buf, pos |-> pos],
                                      ref, resp)} :
           /\ tx' = [via |-> "upload", state |-> r.state,
                     file |-> [buf |-> buf, pos |-> 0,
                               shasum |-> compute_size_sha(
                                             [buf |-> buf, pos |-> pos]).shasum,
                               ref |-> ref, path |-> parts_from_1(path)],
                     exc |-> r.exc, given |-> ref, resp |-> resp]
           /\ txlog' = txlog \o During("upload", r.reqs)
    /\ UNCHANGED <<fsVars, batchVars, concVars>>

\* The calls of close() one transaction sees.
MaxCloses == 2

\* close() has been called and raised: the file object is still open and
\* holds its fields.
CloseRaised ==
    /\ tx.via = "LFSFile"
    /\ tx.state = "RAISED"
    /\ \E i \in DOMAIN txlog : txlog[i].during = "close"

\* close() has run to its end: the fields are None and the temporary file is
\* closed.
Closed == tx.via = "LFSFile" /\ tx.state \in {"COMMITTED", "ABORTED"}

\* LFSFile.close() once more.  After a close that raised, the body runs again
\* from its first line.  After a close that ran to its end, _get_size seeks in
\* the closed temporary file and raises ValueError.
CloseAgain ==
    \/ /\ CloseRaised
       /\ Cardinality(Logged("create_branch")) < MaxCloses
       /\ \E resp \in {e \in TxResps : e.branch = "ok"} :
            \E r \in {close(tx.file, resp)} :
              /\ tx' = [tx EXCEPT !.state = r.state, !.exc = r.exc,
                                  !.resp = resp]
              /\ txlog' = txlog \o During("close", r.reqs)
       /\ UNCHANGED <<fsVars, batchVars, concVars>>
    \/ /\ Closed
       /\ tx' = [tx EXCEPT !.exc = "ValueError"]
       /\ UNCHANGED <<txlog, fsVars, batchVars, concVars>>

\* LFSFile.write(data) after a close that ran to its end: self.shasum is
\* None, and self.shasum.update raises AttributeError.
WriteClosed ==
    /\ Closed
    /\ tx' = [tx EXCEPT !.exc = "AttributeError"]
    /\ UNCHANGED <<txlog, fsVars, batchVars, concVars>>

NextUpload == Open \/ Write \/ Seek \/ Close \/ UploadFile

SpecUpload == Init /\ [][NextUpload]_vars

\* One LFSFile over its whole lifetime: constructed, written, and closed any
\* number of times.
NextReclose == Open \/ Write \/ Seek \/ Close \/ CloseAgain \/ WriteClosed

SpecReclose == Init /\ [][NextReclose]_vars

\* ------------------------------------------------------------------------
\* Claims on the upload transaction, checked under SpecUpload
\* ------------------------------------------------------------------------

\* The steps of the transaction in the order the specification gives them.
StepKinds ==
    <<"create_branch", "batch", "put", "commit", "gitattributes_get",
      "gitattributes_commit", "merge_request">>

StepOf(kind) == CHOOSE n \in DOMAIN StepKinds : StepKinds[n] = kind

\* C1 as stated: the pointer file committed declares as oid the digest of
\* exactly the bytes held in the buffer, which are the bytes PUT, and as size
\* their length.
C1_PointerDeclaresBufferedBytes ==
    /\ \A i \in Logged("commit") :
          /\ txlog[i].req.oid = tx.file.buf
          /\ txlog[i].req.size = <<Len(tx.file.buf)>>
    /\ \A i \in Logged("put") : txlog[i].req.body = tx.file.buf

C8_GrantedUploadIsPut ==
    \A j \in Logged("commit") :
       tx.resp.batch \in {"upload_te", "upload"} =>
          \E i \in Logged("put") : i < j /\ txlog[i].req.body = tx.file.buf

\* C9 as stated: when the batch negotiation is answered with an error, or the
\* PUT with a non-success status, the call raises and no pointer file is
\* committed.
C9_FailedTransferRaises ==
    (/\ Logged("batch") # {}
     /\ \/ tx.resp.batch \in {"error", "undecodable"}
        \/ Logged("put") # {} /\ tx.resp.put = "status_error")
    => tx.exc # None /\ Logged("commit") = {}

\* C10 as stated: on both paths, when the response to the pointer commit
\* cannot be decoded the transaction ends ABORTED, nothing is raised, and
\* neither the .gitattributes commit nor the merge request is issued.
C10_UndecodableCommitAborts ==
    (Logged("commit") # {} /\ tx.resp.commit = "undecodable")
    => /\ tx.state = "ABORTED"
       /\ tx.exc = None
       /\ Logged("gitattributes_commit") = {}
       /\ Logged("merge_request") = {}

\* C11 as stated: the batch negotiation request names as its ref the working
\* branch the transaction created, not the branch it was created from.
C11_BatchNamesWorkingBranch ==
    \A i \in Logged("batch") :
       /\ \A k \in Logged("create_branch") :
             txlog[i].req.ref = txlog[k].req.branch
       /\ txlog[i].req.ref = NewBranch

\* C12 as stated: on both paths and at any depth, the path the .gitattributes
\* commit names in its filter line is the path the pointer file of the same
\* transaction was committed at.
C12_FilterLineNamesPointerPath ==
    \A i \in Logged("commit"), j \in Logged("gitattributes_commit") :
       txlog[j].req.path = txlog[i].req.path

C34_CommitsOnWorkingBranch ==
    \A i \in Logged("commit") \cup Logged("gitattributes_commit") :
       txlog[i].req.branch = NewBranch

\* An upload with an explicit ref that committed the pointer file and
\* .gitattributes.
C34_Witness ==
    /\ tx.via = "upload"
    /\ tx.given = "dev"
    /\ tx.state = "COMMITTED"
    /\ Logged("commit") # {}
    /\ Logged("gitattributes_commit") # {}

\* The remote side effects of a transaction.
SideEffects ==
    {"create_branch", "batch", "put", "commit", "gitattributes_commit",
     "merge_request"}

\* C35: over the lifetime of an LFSFile, however often close is called and
\* whether or not a close raised, each remote side effect is performed at
\* most once; and a call on a file whose close has run to its end raises and
\* issues no request.
C35_EachSideEffectOnce ==
    [][tx'.via = "LFSFile" =>
          /\ \A kind \in SideEffects :
                Cardinality({i \in DOMAIN txlog' :
                               txlog'[i].req.kind = kind}) <= 1
          /\ Closed => (txlog' = txlog /\ tx'.exc # None)]_vars

\* close was called again after a close that raised.
C35_Witness ==
    /\ tx.via = "LFSFile"
    /\ Cardinality({i \in DOMAIN txlog : txlog[i].during = "close"
                                         /\ txlog[i].req.kind = "batch"}) = 2

\* write was called after a close that ran to its end.
C35_WriteWitness ==
    /\ Closed
    /\ tx.exc = "AttributeError"

\* The hosts a file system can be constructed with: the host written into
\* the URLs of lfs_file.py, and another one.
Hosts == {ApiHost, "gitlab.example.org"}

\* The host a logged request was sent to when the file system was
\* constructed with `host`.
HostOf(req, host) == IF req.host = ConfiguredHost THEN host ELSE req.host

\* C40: whatever host the file system was constructed with, every request of
\* an upload transaction is sent to that host.
C40_AllCallsToConfiguredHost ==
    \A host \in Hosts :
       \A i \in DOMAIN txlog : HostOf(txlog[i].req, host) = host

\* An LFSFile went through every step of its transaction.
C40_Witness ==
    /\ tx.via = "LFSFile"
    /\ tx.state = "COMMITTED"
    /\ \A kind \in SideEffects : Logged(kind) # {}

\* ------------------------------------------------------------------------
\* Uploads one after the other against one large-object store
\* ------------------------------------------------------------------------

\* The uploads of one session.
MaxUploads == 2

\* The name under which the log keeps the requests of the n-th upload.
UploadTags == <<"first", "second", "third", "fourth">>

\* The oids the store holds: those for which a PUT was granted and issued.
\* The PUT follows its batch request in the log.
StoredOids(log) ==
    {log[i - 1].req.oid : i \in {j \in DOMAIN log : log[j].req.kind = "put"}}

\* The batch endpoint: no action for an oid the store holds, else an upload
\* action, whose header map the server fills with or without
\* Transfer-Encoding.
BatchAnswers(log, oid) ==
    IF oid \in StoredOids(log) THEN {"exists"} ELSE {"upload_te", "upload"}

\* The requests of the upload that ran last.
LastUpload == {i \in DOMAIN txlog : txlog[i].during = UploadTags[calls]}

\* ARCfs.upload(path, file, ref) against the store.
StoreUpload ==
    /\ calls < MaxUploads
    /\ \E buf \in ByteSeqs(MaxChunk) \ {<<>>}, path \in UploadPaths,
          ref \in Refs :
       \E ba \in BatchAnswers(txlog, buf) :
       \E resp \in {[OkEnv EXCEPT !.batch = ba]} :
       \E r \in {upload_transaction(path, [buf |-> buf, pos |-> 0], ref,
                                    resp)} :
         /\ tx' = [via |-> "upload", state |-> r.state,
                   file |-> [buf |-> buf, pos |-> 0, shasum |-> buf,
                             ref |-> ref, path |-> parts_from_1(path)],
                   exc |-> r.exc, given |-> ref, resp |-> resp]
         /\ txlog' = txlog \o During(UploadTags[calls + 1], r.reqs)
    /\ calls' = calls + 1
    /\ UNCHANGED <<repo_trees_dict, accesed_repositories, info_dict, opReqs,
                   ret, batchVars, concVars>>

\* An LFSFile constructed for a branch, written once and closed, against the
\* store.
StoreWriteClose ==
    /\ calls < MaxUploads
    /\ \E data \in ByteSeqs(MaxChunk) \ {<<>>}, path \in TxPaths :
       \E ba \in BatchAnswers(txlog, data) :
       \E resp \in {[OkEnv EXCEPT !.batch = ba]} :
       \E f \in {write(LFSFile(path, "dev", resp).file, data)} :
       \E r \in {close(f, resp)} :
         /\ tx' = [via |-> "LFSFile", state |-> r.state, file |-> f,
                   exc |-> r.exc, given |-> "dev", resp |-> resp]
         /\ txlog' = txlog \o During(UploadTags[calls + 1], r.reqs)
    /\ calls' = calls + 1
    /\ UNCHANGED <<repo_trees_dict, accesed_repositories, info_dict, opReqs,
                   ret, batchVars, concVars>>

NextStore == StoreUpload \/ StoreWriteClose

SpecStore == Init /\ [][NextStore]_vars

\* The content of the last upload was committed before by another upload
\* under another path.
UploadedBefore ==
    \E i \in Logged("commit") \ LastUpload :
       /\ txlog[i].req.oid = tx.file.shasum
       /\ txlog[i].req.path # tx.file.path

\* C14 as stated: an upload of content that an earlier upload committed under
\* another path is answered without an upload action, issues no PUT, commits
\* a pointer file with the same oid and goes on to the .gitattributes commit
\* and the merge request.
C14_SecondUploadSkipsPut ==
    (calls >= 2 /\ UploadedBefore) =>
       /\ tx.resp.batch = "exists"
       /\ Logged("put") \cap LastUpload = {}
       /\ \E i \in Logged("commit") \cap LastUpload :
             txlog[i].req.oid = tx.file.shasum
       /\ Logged("gitattributes_commit") \cap LastUpload # {}
       /\ Logged("merge_request") \cap LastUpload # {}

\* The content was stored by the first upload, and the second one, under
\* another path, committed its pointer file without a PUT.
C14_Witness ==
    /\ calls = 2
    /\ UploadedBefore
    /\ tx.resp.batch = "exists"
    /\ tx.state = "COMMITTED"
    /\ Cardinality(Logged("put")) = 1
    /\ Cardinality(Logged("commit")) = 2

\* ------------------------------------------------------------------------
\* One metadata batch: ARCfs._retrieve_metadata and its tasks, one
\* FileStreamHandler._get_gitlab_metadata coroutine per file path
\* ------------------------------------------------------------------------

\* `if semaphore is None: semaphore = 10`
DefaultLimit == 10

\* The file paths of one batch, and the limits a caller passes.
MaxBatchPaths == 3
MaxLimit == 2

\* The semaphore argument: <<>> for None, <<k>> for the integer k.
LimitArgs == {<<>>} \cup {<<k>> : k \in 1..MaxLimit}

\* asyncio.BoundedSemaphore(limit), which `async with semaphore` acquires on
\* entry and releases on exit.  acquire waits while locked.
BoundedSemaphore(limit) == [value |-> limit, bound |-> limit]
locked_never(sem) == FALSE
locked(sem) == sem.value = 0
acquire(sem) == [sem EXCEPT !.value = @ - 1]
release_kept(sem) == sem
release(sem) == [sem EXCEPT !.value = @ + 1]

\* How the three requests of a task can be answered.  The probe: a final
\* status, a redirect (301/302), 404, or an exception of the client.  The
\* redirect target: a status with Content-Length, one without, 404, or an
\* exception.  The pointer text: a body with a size line, a 404 (whose body
\* has no size line; the status is not looked at), a body that cannot be read
\* (the size becomes 0), or an exception of session.get.
ProbeAnswers == {"ok", "redirect", "notfound", "error"}
RedirectAnswers == {"length", "nolength", "notfound", "error"}
TextAnswers == {"ok", "notfound", "unreadable", "error"}

\* The file paths of the batch, in the order of _gather_file_paths, and the
\* size the server holds for each.
BatchFiles == <<"e", "f", "k", "m">>
BatchPath(i) == <<"A", "d", BatchFiles[i]>>
BatchSize(i) == 10 * i

\* What a task returns: <<>> for None, else <<fileinfo>> with
\* fileinfo = {"name": path.parts[-1], "size": size}.
fileinfo(i, size) == <<[name |-> last_part(BatchPath(i)), size |-> size]>>

\* `last` is the answer to the last request of the task.
NewTask == [pc |-> "probe_wait", result |-> <<>>, last |-> None]

\* paths_info = {key: value for (key, value) in zip(paths, temp)}
paths_info(paths, temp) ==
    [p \in {paths[i] : i \in DOMAIN paths} |->
        temp[CHOOSE i \in DOMAIN paths : paths[i] = p]]

\* The requests of the batch that are in flight.
InFlight ==
    Cardinality({i \in DOMAIN tasks : tasks[i].pc \in {"probe", "redirect",
                                                       "text"}})

\* _retrieve_metadata up to asyncio.gather: the limit defaults, the semaphore
\* is created, the URLs are constructed (each with a blocking lookup of the
\* default branch, which may raise), one task per path is scheduled.
RetrieveMetadata ==
    /\ batch.step = "idle"
    /\ \E n \in 0..MaxBatchPaths, arg \in LimitArgs, urls \in BOOLEAN :
         \E limit \in {IF arg = <<>> THEN DefaultLimit ELSE arg[1]} :
           IF urls \/ n = 0
           THEN /\ batch' = [step |-> "gather"] @@ BoundedSemaphore(limit)
                /\ tasks' = [i \in 1..n |-> NewTask]
           ELSE /\ batch' = [step |-> "raised"] @@ BoundedSemaphore(limit)
                /\ tasks' = <<>>
    /\ UNCHANGED <<fsVars, txVars, concVars>>

\* A task enters `async with semaphore, session.get(...)`: it acquires the
\* semaphore and sends the request.  On a session that is closed already
\* session.get raises and the semaphore is released at once.
Send(i, from, to) ==
    /\ tasks[i].pc = from
    /\ ~locked(batch)
    /\ IF batch.step = "gather"
       THEN /\ batch' = [step |-> batch.step] @@ acquire(batch)
            /\ tasks' = [tasks EXCEPT ![i].pc = to]
       ELSE /\ tasks' = [tasks EXCEPT ![i].pc = "raised"]
            /\ UNCHANGED batch
    /\ UNCHANGED <<fsVars, txVars, concVars>>

\* The block of a request ends: the semaphore is released, the task goes on.
Leave_block(i, pc, result, a) ==
    /\ batch' = [step |-> batch.step] @@ release(batch)
    /\ tasks' = [tasks EXCEPT ![i] = [pc |-> pc, result |-> result,
                                      last |-> a]]
    /\ UNCHANGED <<fsVars, txVars, concVars>>

\* The answers a request can get: on a closed session only an exception.
Answers(all) == IF batch.step = "gather" THEN all ELSE {"error"}

\* lines 158-165: the probe
SendProbe == \E i \in DOMAIN tasks : Send(i, "probe_wait", "probe")

RecvProbe ==
    \E i \in DOMAIN tasks :
      /\ tasks[i].pc = "probe"
      /\ \E a \in Answers(ProbeAnswers) :
           CASE a = "ok" ->
                  Leave_block(i, "returned", fileinfo(i, BatchSize(i)), a)
             [] a = "redirect" -> Leave_block(i, "redirect_wait", <<>>, a)
             [] a = "notfound" -> Leave_block(i, "returned", <<>>, a)
             [] a = "error" -> Leave_block(i, "raised", <<>>, a)

\* lines 166-176: the redirect is followed
SendRedirect == \E i \in DOMAIN tasks : Send(i, "redirect_wait", "redirect")

RecvRedirect ==
    \E i \in DOMAIN tasks :
      /\ tasks[i].pc = "redirect"
      /\ \E a \in Answers(RedirectAnswers) :
           CASE a = "length" ->
                  Leave_block(i, "returned", fileinfo(i, BatchSize(i)), a)
             [] a = "nolength" -> Leave_block(i, "text_wait", <<>>, a)
             [] a = "notfound" -> Leave_block(i, "returned", <<>>, a)
             [] a = "error" -> Leave_block(i, "raised", <<>>, a)

\* lines 193-215: the pointer text is fetched; `size` is bound by a size line
\* of the body or by the handler of aiohttp.ClientError, and building fileinfo
\* with `size` unbound raises UnboundLocalError.
SendText == \E i \in DOMAIN tasks : Send(i, "text_wait", "text")

RecvText ==
    \E i \in DOMAIN tasks :
      /\ tasks[i].pc = "text"
      /\ \E a \in Answers(TextAnswers) :
           CASE a = "ok" ->
                  Leave_block(i, "returned", fileinfo(i, BatchSize(i)), a)
             [] a = "notfound" -> Leave_block(i, "raised", <<>>, a)
             [] a = "unreadable" ->
                  Leave_block(i, "returned", fileinfo(i, 0), a)
             [] a = "error" -> Leave_block(i, "raised", <<>>, a)

\* asyncio.gather returns when every task has returned; the session closes
\* and the mapping paths_info is returned.
Gather ==
    /\ batch.step = "gather"
    /\ \A i \in DOMAIN tasks : tasks[i].pc = "returned"
    /\ batch' = [step |-> "done",
                 info |-> paths_info([i \in DOMAIN tasks |-> BatchPath(i)],
                                     [i \in DOMAIN tasks |-> tasks[i].result])]
                @@ batch
    /\ UNCHANGED <<tasks, fsVars, txVars, concVars>>

\* asyncio.gather raises the first exception of a task; the session closes
\* and the other tasks are left running.
GatherRaise ==
    /\ batch.step = "gather"
    /\ \E i \in DOMAIN tasks : tasks[i].pc = "raised"
    /\ batch' = [batch EXCEPT !.step = "raised"]
    /\ UNCHANGED <<tasks, fsVars, txVars, concVars>>

NextBatch ==
    RetrieveMetadata \/ SendProbe \/ RecvProbe \/ SendRedirect \/ RecvRedirect
    \/ SendText \/ RecvText \/ Gather \/ GatherRaise

SpecBatch == Init /\ [][NextBatch]_vars

\* C5: during one metadata batch the requests in flight (probes, followed
\* redirects and pointer-text fetches counted together) never exceed the limit
\* of its semaphore, which is 10 when the caller passes none.
C5_InFlightWithinLimit ==
    /\ InFlight <= batch.bound
    /\ batch.step # "idle" => batch.bound \in 1..MaxLimit \cup {DefaultLimit}

\* The limit is reached by a followed redirect and a pointer-text fetch in
\* flight while another task waits to send its probe.
C5_Witness ==
    /\ batch.step = "gather"
    /\ InFlight = batch.bound
    /\ \E i \in DOMAIN tasks : tasks[i].pc = "redirect"
    /\ \E i \in DOMAIN tasks : tasks[i].pc = "text"
    /\ \E i \in DOMAIN tasks : tasks[i].pc = "probe_wait"

\* C16 as stated: in a metadata batch a path whose last response is a 404 is
\* mapped to None and its task does not raise, and the mapping the batch
\* returns gives every other path the name and the size of that path.
C16_NotFoundMapsToNone ==
    /\ \A i \in DOMAIN tasks :
          tasks[i].last = "notfound" =>
             tasks[i].pc = "returned" /\ tasks[i].result = <<>>
    /\ batch.step = "done" =>
          /\ DOMAIN batch.info = {BatchPath(i) : i \in DOMAIN tasks}
          /\ \A i \in DOMAIN tasks :
                batch.info[BatchPath(i)] =
                   IF tasks[i].last = "notfound" THEN <<>>
                   ELSE fileinfo(i, IF tasks[i].last = "unreadable" THEN 0
                                    ELSE BatchSize(i))

\* A returned mapping with a 404 among the paths and a size for another.
C16_Witness ==
    /\ batch.step = "done"
    /\ Len(tasks) = MaxBatchPaths
    /\ tasks[2].last = "notfound"
    /\ batch.info[BatchPath(2)] = <<>>
    /\ batch.info[BatchPath(1)] = fileinfo(1, BatchSize(1))
    /\ batch.info[BatchPath(3)] = fileinfo(3, BatchSize(3))

\* The batch under the scheduling of the event loop: every request that was
\* sent is answered in the end, a task that waits for the semaphore enters
\* when a permit is free, and gather returns or raises once it can.
SpecBatchLive ==
    /\ SpecBatch
    /\ WF_vars(SendProbe) /\ WF_vars(RecvProbe)
    /\ WF_vars(SendRedirect) /\ WF_vars(RecvRedirect)
    /\ WF_vars(SendText) /\ WF_vars(RecvText)
    /\ WF_vars(Gather) /\ WF_vars(GatherRaise)

\* C39: while the batch gathers, the permits taken from the semaphore are
\* those of the requests in flight, at most one for each task; every batch
\* that gathers returns or raises in the end; and every permit is back when
\* the batch returns.
C39_BatchTerminates ==
    /\ [](batch.step = "gather" => batch.bound - batch.value = InFlight)
    /\ [](batch.step = "done" => batch.value = batch.bound)
    /\ (batch.step = "gather") ~> (batch.step \in {"done", "raised"})

\* A batch of MaxBatchPaths paths under the limit 1 has returned.
C39_Witness ==
    /\ batch.step = "done"
    /\ batch.bound = 1
    /\ batch.value = 1
    /\ Len(tasks) = MaxBatchPaths

\* ------------------------------------------------------------------------
\* Threads calling one ARCfs object.  A call is taken in the steps at which
\* another thread can run in between: the lock is acquired, the cache is
\* asked for the repository, the listing is fetched into a local dictionary,
\* the dictionary is committed, the rest of the call runs on the caches, the
\* lock is released.
\* ------------------------------------------------------------------------

\* The entry points whose body is `with self._lock:`.
needs_lock_but_makedir(op) == op \in {"openbin", "upload"}
needs_lock(op) == op \in {"openbin", "upload", "makedir"}

\* The calls the threads make, all on repository "1".
ConcPaths == {<<"A", SEP, "d">>, <<"A", SEP, "n">>}
ConcOps == {"getinfo", "listdir", "isdir", "openbin", "upload", "makedir"}
ConcArg(op) == IF op = "openbin" THEN "w" ELSE IF op = "makedir" THEN "once"
               ELSE None

\* The thread is inside the body of a call; for openbin, upload and makedir
\* that is inside the with block.
InBody(t) == thr[t].pc \in {"check", "fetch", "commit", "act", "release"}

\* A thread enters a call.
Enter(t) ==
    /\ thr[t].pc = "idle"
    /\ \E op \in ConcOps, s \in ConcPaths :
         thr' = [thr EXCEPT ![t] =
                   [NoCall EXCEPT !.op = op, !.arg = ConcArg(op), !.path = s,
                                  !.pc = IF needs_lock(op) THEN "acquire"
                                         ELSE "check"]]
    /\ UNCHANGED <<lock, repo_trees_dict, accesed_repositories, info_dict,
                   opReqs, ret, calls, txVars, batchVars>>

\* threading.RLock.acquire: the lock is free or the thread's own.
Acquire(t) ==
    /\ thr[t].pc = "acquire"
    /\ lock \in {0, t}
    /\ lock' = t
    /\ thr' = [thr EXCEPT ![t].pc = "check"]
    /\ UNCHANGED <<fsVars, txVars, batchVars>>

\* The membership test that guards _construct_tree_dict: getinfo tests
\* accesed_repositories, every other call (through isdir) repo_trees_dict.
Check(t) ==
    /\ thr[t].pc = "check"
    /\ \E id \in {RepoOf(thr[t].path)} :
       \E built \in {IF thr[t].op = "getinfo" THEN id \in accesed_repositories
                     ELSE id \in DOMAIN repo_trees_dict} :
         thr' = [thr EXCEPT ![t].pc = IF built THEN "act" ELSE "fetch"]
    /\ UNCHANGED <<lock, fsVars, txVars, batchVars>>

\* _construct_tree_dict up to its last two lines: the pages are fetched and
\* directory_dict is built, a local variable of the thread.
Fetch(t) ==
    /\ thr[t].pc = "fetch"
    /\ \E id \in {RepoOf(thr[t].path)} :
       \E c \in {construct_tree_dict(<<>>, {}, id, repos_root(id), OkPages)} :
         thr' = [thr EXCEPT ![t].pc = "commit", ![t].dd = c.trees[id]]
    /\ UNCHANGED <<lock, fsVars, txVars, batchVars>>

\* The last two lines of _construct_tree_dict:
\*   self.repo_trees_dict.update({repo_id: directory_dict})
\*   self.accesed_repositories.add(repo_id)
Commit(t) ==
    /\ thr[t].pc = "commit"
    /\ \E id \in {RepoOf(thr[t].path)} :
         /\ repo_trees_dict' = Upd(repo_trees_dict, id, thr[t].dd)
         /\ accesed_repositories' = accesed_repositories \cup {id}
    /\ thr' = [thr EXCEPT ![t].pc = "act"]
    /\ UNCHANGED <<lock, info_dict, opReqs, ret, calls, txVars, batchVars>>

\* The call by name, on the caches as they are.
RunOp(op, s) ==
    CASE op = "getinfo" ->
           getinfo(repo_trees_dict, accesed_repositories, info_dict, s, OkEnv)
      [] op = "listdir" ->
           listdir(repo_trees_dict, accesed_repositories, info_dict, s, OkEnv)
      [] op = "isdir" ->
           isdir(repo_trees_dict, accesed_repositories, info_dict, s, OkEnv)
      [] op = "openbin" ->
           openbin(repo_trees_dict, accesed_repositories, info_dict, s, "w",
                   OkEnv)
      [] op = "upload" ->
           upload(repo_trees_dict, accesed_repositories, info_dict, s,
                  [buf |-> <<1>>, pos |-> 0], None, OkEnv)
      [] op = "makedir" ->
           makedir(repo_trees_dict, accesed_repositories, info_dict, s, FALSE,
                   OkEnv)

\* The rest of the call, which finds the repository in the caches.
Act(t) ==
    /\ thr[t].pc = "act"
    /\ \E r \in {RunOp(thr[t].op, thr[t].path)} :
         /\ repo_trees_dict' = r.trees
         /\ accesed_repositories' = r.acc
         /\ info_dict' = r.info
         /\ thr' = [thr EXCEPT ![t].exc = r.exc,
                               ![t].pc = IF needs_lock(thr[t].op)
                                         THEN "release" ELSE "done"]
    /\ UNCHANGED <<lock, opReqs, ret, calls, txVars, batchVars>>

\* The with block is left, by return or by exception.
Release(t) ==
    /\ thr[t].pc = "release"
    /\ lock' = 0
    /\ thr' = [thr EXCEPT ![t].pc = "done"]
    /\ UNCHANGED <<fsVars, txVars, batchVars>>

NextConc ==
    \E t \in Threads :
       Enter(t) \/ Acquire(t) \/ Check(t) \/ Fetch(t) \/ Commit(t) \/ Act(t)
       \/ Release(t)

SpecConc == Init /\ [][NextConc]_vars

\* C6 as stated: under every interleaving no entry present in repo_trees_dict
\* or info_dict is removed or replaced by a different value; a directory added
\* by makedir survives the tree build of another thread.
C6_CachesOnlyGrow ==
    [][/\ \A id \in DOMAIN repo_trees_dict :
            /\ id \in DOMAIN repo_trees_dict'
            /\ \A p \in DOMAIN repo_trees_dict[id] :
                 /\ p \in DOMAIN repo_trees_dict'[id]
                 /\ repo_trees_dict'[id][p] = repo_trees_dict[id][p]
       /\ \A p \in DOMAIN info_dict :
            p \in DOMAIN info_dict' /\ info_dict'[p] = info_dict[p]]_vars

\* C7: at most one thread at a time is inside the body of openbin, upload or
\* makedir, and that thread holds the lock.
C7_OneThreadInLockedBody ==
    \A t, u \in Threads :
       (/\ thr[t].op \in {"openbin", "upload", "makedir"} /\ InBody(t)
        /\ thr[u].op \in {"openbin", "upload", "makedir"} /\ InBody(u))
       => t = u /\ lock = t

\* A thread fetches the listing inside upload while another waits for the
\* lock in makedir.
C7_Witness ==
    \E t, u \in Threads :
       /\ thr[t].op = "upload" /\ thr[t].pc = "fetch" /\ lock = t
       /\ thr[u].op = "makedir" /\ thr[u].pc = "acquire"


\* ------------------------------------------------------------------------
\* ARCfs._get_repo_id_path on the paths under the repositories of the catalog
\* ------------------------------------------------------------------------

\* The display paths of the repositories of the catalog (one segment each:
\* " / " is replaced by "-" and " " by "_" before Path is applied).
RepoDisplayPaths ==
    {RemoteProjects[i].path_formated[1] : i \in DOMAIN RemoteProjects}

\* The id the catalog holds for the repository displayed as p.
IdOfDisplayPath(p) ==
    RemoteProjects[CHOOSE i \in DOMAIN RemoteProjects :
                      RemoteProjects[i].path_formated = <<p>>].id

\* The suffixes put after a display path: separators, ".", ".." and names,
\* one of them the display name of another repository.
MaxSuffix == 3
SuffixTokens == {SEP, ".", "..", "d", "B"}
Suffixes == UNION {[1..n -> SuffixTokens] : n \in 1..MaxSuffix}

\* _get_repo_id_path(p)
ResolveRepo ==
    /\ \E p \in RepoDisplayPaths :
         ret' = [Idle EXCEPT !.op = "resolve", !.arg = p, !.path = <<p>>,
                             !.val = get_repo_id_path(<<p>>)]
    /\ UNCHANGED <<repo_trees_dict, accesed_repositories, info_dict, opReqs,
                   calls, txVars, batchVars, concVars>>

\* _get_repo_id_path(p + "/" + s)
ResolveUnder ==
    /\ \E p \in RepoDisplayPaths, s \in Suffixes :
         ret' = [Idle EXCEPT !.op = "resolve", !.arg = p,
                             !.path = <<p, SEP>> \o s,
                             !.val = get_repo_id_path(<<p, SEP>> \o s)]
    /\ UNCHANGED <<repo_trees_dict, accesed_repositories, info_dict, opReqs,
                   calls, txVars, batchVars, concVars>>

\* The spellings of the root.
RootPaths == {<<SEP>>, <<".">>, <<".", SEP>>, <<>>}

\* _get_repo_id_path on a spelling of the root
ResolveRoot ==
    /\ \E s \in RootPaths :
         ret' = [Idle EXCEPT !.op = "resolve_root", !.path = s,
                             !.val = get_repo_id_path(s)]
    /\ UNCHANGED <<repo_trees_dict, accesed_repositories, info_dict, opReqs,
                   calls, txVars, batchVars, concVars>>

\* The first segments no repository of the catalog is displayed under.
UnknownSegments == {"X", "d"}

\* _get_repo_id_path(x) and _get_repo_id_path(x + "/" + s) for an unknown
\* first segment x, with or without a leading separator
ResolveUnknown ==
    /\ \E x \in UnknownSegments, lead \in {<<>>, <<SEP>>},
          s \in {<<>>} \cup {<<SEP>> \o t : t \in Suffixes} :
         ret' = [Idle EXCEPT !.op = "resolve_unknown", !.arg = x,
                             !.path = lead \o <<x>> \o s,
                             !.val = get_repo_id_path(lead \o <<x>> \o s)]
    /\ UNCHANGED <<repo_trees_dict, accesed_repositories, info_dict, opReqs,
                   calls, txVars, batchVars, concVars>>

NextResolve == ResolveRepo \/ ResolveUnder \/ ResolveRoot \/ ResolveUnknown

SpecResolve == Init /\ [][NextResolve]_vars

\* C20: for a display path p of a repository of the catalog,
\* _get_repo_id_path(p) and _get_repo_id_path(p + "/" + s), for every suffix
\* s with or without leading or trailing separators, return the id the
\* catalog holds for p and the root segment p.
C20_SuffixKeepsRepository ==
    ret.op = "resolve" =>
       /\ ret.val.exc = None
       /\ ret.val.id = IdOfDisplayPath(ret.arg)
       /\ ret.val.root = ret.arg

\* A suffix with a leading and a trailing separator that names another
\* repository.
C20_Witness ==
    /\ ret.op = "resolve"
    /\ ret.path = <<"A", SEP, SEP, "B", SEP>>
    /\ ret.val.id = "1"
    /\ ret.val.root = "A"

\* C37: _get_repo_id_path returns for ".", "./" and the empty path what it
\* returns for "/", without raising; and for a path whose first segment is
\* unknown it returns (None, None) without raising.
C37_RootSpellingsAndUnknown ==
    /\ ret.op = "resolve_root" =>
          /\ ret.val.exc = None
          /\ ret.val = get_repo_id_path(<<SEP>>)
    /\ ret.op = "resolve_unknown" =>
          /\ ret.val.exc = None
          /\ ret.val.id = None
          /\ ret.val.root = None

\* "./" resolved as "/" is.
C37_Witness ==
    /\ ret.op = "resolve_root"
    /\ ret.path = <<".", SEP>>
    /\ ret.val.exc = None
    /\ ret.val = get_repo_id_path(<<SEP>>)

\* The empty path was resolved.
C37_EmptyWitness ==
    /\ ret.op = "resolve_root"
    /\ ret.path = <<>>

\* ------------------------------------------------------------------------
\* The name of the pointer file: the double extension collapsed in openbin
\* and in ARCfs.upload
\* ------------------------------------------------------------------------

\* A file name is the sequence of its components between the dots ("n.tar.gz"
\* is <<"n", "tar", "gz">>); a path inside the repository is the sequence of
\* its directory names and its file name.
ExtPath(dir, nm) == [dir |-> dir, name |-> nm]

\* pathlib: PurePath.suffixes, PurePath.stem and PurePath.with_suffix on a
\* name that neither starts nor ends with a dot.
suffixes(nm) == Tail(nm)
stem(nm) == IF Len(nm) > 1 THEN SubSeq(nm, 1, Len(nm) - 1) ELSE nm
with_suffix(nm, sfx) == stem(nm) \o sfx

\* list(dict.fromkeys(q)): the first occurrence of each element, in order.
RECURSIVE fromkeys(_)
fromkeys(q) ==
    IF q = <<>> THEN <<>>
    ELSE LET r == fromkeys(SubSeq(q, 1, Len(q) - 1))
         IN  IF \E i \in DOMAIN r : r[i] = q[Len(q)] THEN r
             ELSE Append(r, q[Len(q)])

\* utils.clean_file_ext: every suffix is taken off the name, then the
\* suffixes without their repetitions are put back.
clean_file_ext(path) ==
    [path EXCEPT !.name = with_suffix(<<path.name[1]>>,
                                      fromkeys(suffixes(path.name)))]

\* ARCfs.openbin, lines 881-885: when the first two suffixes are equal the
\* path becomes Path(path.stem), which holds no directory, with its last
\* suffix replaced by that suffix.
openbin_path(path) ==
    IF Len(suffixes(path.name)) > 1
       /\ suffixes(path.name)[1] = suffixes(path.name)[2]
    THEN ExtPath(<<>>, with_suffix(stem(path.name),
                                   <<suffixes(path.name)[2]>>))
    ELSE path

\* The names and the paths the files are written under.
MaxExt == 3
Exts == {"gz", "tar"}
ExtNames ==
    {<<b>> \o e : b \in {"n", "m"},
                  e \in UNION {[1..k -> Exts] : k \in 0..MaxExt}}
ExtPaths == {ExtPath(d, nm) : d \in {<<>>, <<"d">>}, nm \in ExtNames}

\* open(path, "w") and close() of the file returned, every request answered:
\* the LFSFile is constructed with the path openbin computed.
ExtOpenWrite ==
    /\ CanCall
    /\ \E path \in ExtPaths, ref \in Refs :
         \E f \in {LFSFile(openbin_path(path), ref, OkEnv)} :
         \E c \in {close(f.file, OkEnv)} :
           /\ ret' = [Idle EXCEPT !.op = "openbin", !.arg = "w",
                                  !.path = path, !.exc = c.exc]
           /\ txlog' = During("init", f.reqs) \o During("close", c.reqs)
    /\ calls' = calls + 1
    /\ UNCHANGED <<repo_trees_dict, accesed_repositories, info_dict, opReqs,
                   tx, batchVars, concVars>>

\* ARCfs.upload, lines 1015-1019, every request answered: the pointer file is
\* committed under the path clean_file_ext returns.
ExtUpload ==
    /\ CanCall
    /\ \E path \in ExtPaths, file \in UploadFiles :
         \E i \in {compute_size_sha(file)} :
         \E c \in {commit_pointer_file(clean_file_ext(path), i.shasum,
                                       i.size, NewBranch, OkEnv)} :
           /\ ret' = [Idle EXCEPT !.op = "upload", !.path = path,
                                  !.exc = c.exc]
           /\ txlog' = During("upload", c.reqs)
    /\ calls' = calls + 1
    /\ UNCHANGED <<repo_trees_dict, accesed_repositories, info_dict, opReqs,
                   tx, batchVars, concVars>>

\* The session goes on to its next file.
ExtNext ==
    /\ ret.op # "idle"
    /\ ret' = Idle
    /\ txlog' = <<>>
    /\ UNCHANGED <<repo_trees_dict, accesed_repositories, info_dict, opReqs,
                   calls, tx, batchVars, concVars>>

NextExt == ExtOpenWrite \/ ExtUpload \/ ExtNext

SpecExt == Init /\ [][NextExt]_vars

\* The path of the pointer file the transaction committed.
CommittedPath == txlog[CHOOSE i \in Logged("commit") : TRUE].req.path

\* The routine of the write path the file was written through.
Collapsed(path) ==
    IF ret.op = "openbin" THEN openbin_path(path) ELSE clean_file_ext(path)

\* C31: in both write paths, a file name with two extension components that
\* are identical is committed with a single extension, in the directory of
\* the target path and with the other components of the name kept; a name
\* whose extension components differ is committed unchanged; and collapsing
\* the committed path again changes nothing.
C31_DoubleExtensionCollapsed ==
    LET Twice(nm) == Len(nm) = 3 /\ nm[2] = nm[3]
        Distinct(nm) == \A i, j \in 2..Len(nm) : nm[i] = nm[j] => i = j
        Of(p, c) ==
          /\ Twice(p.name) => c = ExtPath(p.dir, <<p.name[1], p.name[2]>>)
          /\ Distinct(p.name) => c = p
          /\ (Twice(p.name) \/ Distinct(p.name)) => Collapsed(c) = c
    IN  (ret.op \in {"openbin", "upload"} /\ Logged("commit") # {})
           => Of(ret.path, CommittedPath)

\* "d/n.gz.gz" was uploaded and its pointer committed as "d/n.gz".
C31_Witness ==
    /\ ret.op = "upload"
    /\ ret.path = ExtPath(<<"d">>, <<"n", "gz", "gz">>)
    /\ Logged("commit") # {}
    /\ CommittedPath = ExtPath(<<"d">>, <<"n", "gz">>)

\* "d/n.gz.gz" was opened for writing and closed.
C31_OpenWitness ==
    /\ ret.op = "openbin"
    /\ ret.path = ExtPath(<<"d">>, <<"n", "gz", "gz">>)
    /\ Logged("commit") # {}

\* ------------------------------------------------------------------------
\* FileStreamHandler._get_default_branch on a paginated branch listing
\* ------------------------------------------------------------------------

\* One element of the branch listing.
Branch(nm, default) == [name |-> nm, default |-> default]

\* The branch listings of the remote server: up to MaxBranches branches in
\* listing order, any of them flagged as default, on one page or split over
\* two pages.
MaxBranches == 3
BranchNames == <<"main", "dev", "old">>
BranchLists ==
    UNION {{[i \in 1..n |-> Branch(BranchNames[i], flags[i])] :
               flags \in [1..n -> BOOLEAN]} : n \in 0..MaxBranches}
BranchListings ==
    {<<b>> : b \in BranchLists}
    \cup UNION {{<<SubSeq(b, 1, k), SubSeq(b, k + 1, Len(b))>> :
                    k \in 0..Len(b)} : b \in BranchLists}

\* The requests one call can come to issue, and their outcomes in request
\* order.
MaxBranchReqs == 3
BranchOutcomes == [1..MaxBranchReqs -> Outcomes]

\* The loop over the "next" links.  r is the page held by the response
\* variable, got the pages extended into `branches` so far, k the number of
\* the next request.  A Timeout is printed and swallowed: r keeps the previous
\* response, whose page is extended again and whose link is followed again.
RECURSIVE FollowLinks(_, _, _, _, _)
FollowLinks(n, r, got, k, outs) ==
    IF r = n THEN [exc |-> None, got |-> got, nreq |-> k - 1]
    ELSE IF k > MaxBranchReqs
         THEN [exc |-> "Unfinished", got |-> got, nreq |-> k - 1]
    ELSE IF outs[k] = "ok"
         THEN FollowLinks(n, r + 1, Append(got, r + 1), k + 1, outs)
    ELSE IF outs[k] = "timeout"
         THEN FollowLinks(n, r, Append(got, r), k + 1, outs)
    ELSE [exc |-> "SystemExit", got |-> got, nreq |-> k]

\* The loop over reversed(branches) taking the first flagged branch of the
\* listing instead of the last.
default_branch_first(branches) ==
    LET flagged == {i \in DOMAIN branches : branches[i].default}
    IN  IF flagged = {} THEN [exc |-> "UnboundLocalError", val |-> None]
        ELSE [exc |-> None,
              val |-> branches[CHOOSE i \in flagged :
                                  \A j \in flagged : i <= j].name]

\* Lines 122-130: the loop over reversed(branches) stops at the first flagged
\* branch it meets; default_branch is bound nowhere else, so that the return
\* raises when no branch is flagged.
default_branch(branches) ==
    LET flagged == {i \in DOMAIN branches : branches[i].default}
    IN  IF flagged = {} THEN [exc |-> "UnboundLocalError", val |-> None]
        ELSE [exc |-> None,
              val |-> branches[CHOOSE i \in flagged :
                                  \A j \in flagged : i >= j].name]

\* FileStreamHandler._get_default_branch on the listing `pages` with the
\* request outcomes `outs`.
get_default_branch_paged(pages, outs) ==
    LET Chosen(f, d) ==
          IF f.exc # None THEN [exc |-> f.exc, val |-> None, nreq |-> f.nreq]
          ELSE [exc |-> d.exc, val |-> d.val, nreq |-> f.nreq]
        Listed(f) == Chosen(f, default_branch(ConcatPages(pages, f.got)))
    IN  IF outs[1] = "timeout"
             \* r was never bound: r.json() raises
             THEN [exc |-> "UnboundLocalError", val |-> None, nreq |-> 1]
        ELSE IF outs[1] # "ok"
             THEN [exc |-> "SystemExit", val |-> None, nreq |-> 1]
        ELSE Listed(FollowLinks(Len(pages), 1, <<1>>, 2, outs))

\* The outcomes that differ in a request the call comes to issue.
BranchOutcomesOf(pages) ==
    {o \in BranchOutcomes :
       \A k \in 1..MaxBranchReqs :
          k > get_default_branch_paged(pages, o).nreq => o[k] = "ok"}

\* _get_default_branch(repo_id, token, server_url); the calls whose loop ends
\* within MaxBranchReqs requests.
GetDefaultBranch ==
    /\ CanCall
    /\ \E pages \in BranchListings :
       \E outs \in BranchOutcomesOf(pages) :
         \E r \in {get_default_branch_paged(pages, outs)} :
           /\ r.exc # "Unfinished"
           /\ ret' = [Idle EXCEPT !.op = "get_default_branch",
                                  !.arg = [pages |-> pages, outs |-> outs],
                                  !.exc = r.exc, !.val = r.val]
    /\ calls' = calls + 1
    /\ UNCHANGED <<repo_trees_dict, accesed_repositories, info_dict, opReqs,
                   txVars, batchVars, concVars>>

NextBranch == GetDefaultBranch \/ ExtNext

SpecBranch == Init /\ [][NextBranch]_vars

\* The branches of all pages of the listing the call was made on, and the
\* places of the flagged ones.
AllBranches == ConcatPages(ret.arg.pages, [i \in DOMAIN ret.arg.pages |-> i])
Flagged == {i \in DOMAIN AllBranches : AllBranches[i].default}

\* C32: _get_default_branch returns only the name of the last flagged branch
\* of all pages of the listing in listing order; it returns that name when
\* some branch is flagged and every request is answered with success; and it
\* raises when no branch is flagged.
C32_LastFlaggedBranch ==
    ret.op = "get_default_branch" =>
       /\ ret.exc = None =>
             /\ Flagged # {}
             /\ \E i \in Flagged :
                  /\ ret.val = AllBranches[i].name
                  /\ \A j \in Flagged : j <= i
       /\ (Flagged # {} /\ \A k \in 1..MaxBranchReqs : ret.arg.outs[k] = "ok")
             => ret.exc = None
       /\ Flagged = {} => ret.exc # None

\* Two pages, a flagged branch on each, the name of the second one returned.
C32_Witness ==
    /\ ret.op = "get_default_branch"
    /\ Len(ret.arg.pages) = 2
    /\ \E i, j \in Flagged :
          i <= Len(ret.arg.pages[1]) /\ j > Len(ret.arg.pages[1])
    /\ ret.exc = None
    /\ ret.val = "old"

====
